---- MODULE Spec2Model ----
(***************************************************************************)
(* A model of the Pathfinder library: the A* engines AStarGeneric,         *)
(* AStarGenericCached and AStarTile8DirCached.                             *)
(*                                                                         *)
(* An engine instance is a record whose fields are the members of the C++  *)
(* class.  A pointer to an astarnode is a positive integer, NULL is 0, and *)
(* the nodes that were handed out by the allocator and not yet given back  *)
(* live in the field "node" (address -> astarnode).  The caller's graph    *)
(* (the IGetNeighbors functor) and heuristic (the IDestinationCost         *)
(* functor) are the variables graph and hcost, fixed when drawn.           *)
(***************************************************************************)
EXTENDS Integers, Sequences, FiniteSets, TLC

VARIABLES
    variant,    \* which engine class the caller instantiated
    graph,      \* the caller's neighbor functor: state -> sequence of <<neighbor, movecost>>
    hcost,      \* the caller's destination cost functor: state -> estimate
    indexbase,  \* the caller's state-to-index mapping: the index of state u is u + indexbase
    terrain,    \* the caller's functors on tile positions: move costs and estimate scale
    walls,      \* the positions the caller's IMoveBlocked functor reports not reachable
    gen,        \* the AStarGeneric instance
    cac,        \* the AStarGenericCached instance
    til,        \* the AStarTile8DirCached instance
    finalpath,  \* the caller's vector handed to FindPath / GetPath
    call,       \* the last call made: operation, arguments, value returned
    searches,   \* number of searches begun so far
    crashed     \* the process died in a call through a null functor pointer

vars == <<variant, graph, hcost, indexbase, terrain, walls, gen, cac, til, finalpath, call, searches, crashed>>

(***************************************************************************)
(* Bounds of the model.                                                    *)
(***************************************************************************)
MaxSearches == 1
MaxWarmSearches == 2
MaxInvalidateSearches == 3
MaxPops == 40
MaxCacheSearches == 2
MaxRelaxCost == 2

\* the states of the caller's graphs
States == {1, 2, 3, 4}

NULL == 0
PATH_FOUND == 1
PATH_NOTFOUND == 2
PATH_SEARCHING == 3

(***************************************************************************)
(* The caller's functors.                                                  *)
(***************************************************************************)
\* Ordered pairs that may carry a move, and for each the choices: << >> is
\* "no such move", <<c>> is a move of cost c.
EdgeSlots == << <<1, 2>>, <<1, 3>>, <<2, 3>>, <<3, 4>>, <<2, 1>>, <<3, 2>> >>
SlotCosts == << {<<0>>, <<1>>}, {<< >>, <<1>>}, {<< >>, <<0>>, <<1>>},
                {<< >>, <<2>>}, {<< >>, <<1>>}, {<< >>, <<1>>} >>

CostAssignments == { a \in [1 .. Len(EdgeSlots) -> UNION { SlotCosts[i] : i \in 1 .. Len(SlotCosts) }] :
                        \A i \in 1 .. Len(EdgeSlots) : a[i] \in SlotCosts[i] }

RECURSIVE NeighborsFrom(_, _, _)
\* the <<neighbor, cost>> pairs state u emits under assignment a, slots i.. in order
NeighborsFrom(a, u, i) ==
    IF i > Len(EdgeSlots) THEN << >>
    ELSE IF EdgeSlots[i][1] = u /\ a[i] # << >>
         THEN << <<EdgeSlots[i][2], a[i][1]>> >> \o NeighborsFrom(a, u, i + 1)
         ELSE NeighborsFrom(a, u, i + 1)

Graphs == { [u \in States |-> NeighborsFrom(a, u, 1)] : a \in CostAssignments }

\* the estimates: 0 everywhere, 2 at states 1 and 2, or 2 at states 1, 2 and 3
Heuristics == { h \in [States -> {0, 2}] : h[4] = 0 /\ h[1] = h[2] /\ h[2] >= h[3] }

\* IDestinationCost::operator()(node, goal)
destinationcost(node, goal) == hcost[node]

(***************************************************************************)
(* astarallocator: a free list of nodes, fresh nodes when it is empty.     *)
(***************************************************************************)
\* astarallocator::astarallocator
NewAllocator == [m_mem |-> << >>, news |-> 0]

\* astarallocator::allocate: the pointer handed out
allocate_ptr(al) ==
    IF Len(al.m_mem) > 0 THEN al.m_mem[Len(al.m_mem)] ELSE al.news + 1

\* allocate that makes a fresh node whatever the free list holds
allocate_alFresh(al) == [al EXCEPT !.news = al.news + 1]

\* astarallocator::allocate: the allocator afterwards
allocate_al(al) ==
    IF Len(al.m_mem) > 0
    THEN [al EXCEPT !.m_mem = SubSeq(al.m_mem, 1, Len(al.m_mem) - 1)]
    ELSE [al EXCEPT !.news = al.news + 1]

\* astarallocator::deallocate
deallocate(al, ptr) == [al EXCEPT !.m_mem = Append(al.m_mem, ptr)]

(***************************************************************************)
(* std::push_heap, std::pop_heap, std::make_heap with astarnodecompare,    *)
(* as libstdc++ computes them.  A heap is a sequence of node pointers; nd  *)
(* maps a pointer to its astarnode.  Index i of the C++ vector is s[i+1].  *)
(***************************************************************************)
\* astarnodecompare::operator()(left, right)
astarnodecompare(nd, left, right) == nd[right].m_f < nd[left].m_f

RECURSIVE push_heap_from(_, _, _, _, _)
\* std::__push_heap(first, holeIndex, topIndex, value)
push_heap_from(nd, s, hole, top, value) ==
    IF hole > top /\ astarnodecompare(nd, s[((hole - 1) \div 2) + 1], value)
    THEN push_heap_from(nd, [s EXCEPT ![hole + 1] = s[((hole - 1) \div 2) + 1]],
                        (hole - 1) \div 2, top, value)
    ELSE [s EXCEPT ![hole + 1] = value]

\* std::push_heap: the last element of s is the one pushed
push_heap(nd, s) == push_heap_from(nd, s, Len(s) - 1, 0, s[Len(s)])

RECURSIVE adjust_down(_, _, _, _)
\* the while loop of std::__adjust_heap: move the larger child up into the hole
adjust_down(nd, s, hole, len) ==
    IF hole < (len - 1) \div 2
    THEN LET sc0 == 2 * (hole + 1)
             sc  == IF astarnodecompare(nd, s[sc0 + 1], s[sc0]) THEN sc0 - 1 ELSE sc0
         IN adjust_down(nd, [s EXCEPT ![hole + 1] = s[sc + 1]], sc, len)
    ELSE [s |-> s, hole |-> hole]

\* std::__adjust_heap(first, holeIndex, len, value)
adjust_heap(nd, s, hole, len, value) ==
    LET d  == adjust_down(nd, s, hole, len)
        d2 == IF len % 2 = 0 /\ d.hole = (len - 2) \div 2
              THEN [s |-> [d.s EXCEPT ![d.hole + 1] = d.s[2 * (d.hole + 1)]],
                    hole |-> 2 * (d.hole + 1) - 1]
              ELSE d
    IN push_heap_from(nd, d2.s, d2.hole, hole, value)

\* std::pop_heap followed by pop_back: the vector without its front element
pop_heap(nd, s) ==
    IF Len(s) > 1
    THEN SubSeq(adjust_heap(nd, [s EXCEPT ![Len(s)] = s[1]], 0, Len(s) - 1, s[Len(s)]),
                1, Len(s) - 1)
    ELSE << >>

RECURSIVE make_heap_from(_, _, _)
\* the loop of std::__make_heap, from index parent down to 0
make_heap_from(nd, s, parent) ==
    LET t == adjust_heap(nd, s, parent, Len(s), s[parent + 1])
    IN IF parent = 0 THEN t ELSE make_heap_from(nd, t, parent - 1)

\* std::make_heap
make_heap(nd, s) == IF Len(s) < 2 THEN s ELSE make_heap_from(nd, s, (Len(s) - 2) \div 2)

(***************************************************************************)
(* Helpers shared by the engines.                                          *)
(***************************************************************************)
\* listelement::listelement
listelement == [m_node |-> NULL, m_onopen |-> FALSE, m_onclosed |-> FALSE]

\* f with x mapped to v (x may be new to f)
Put(f, x, v) == [y \in (DOMAIN f) \cup {x} |-> IF y = x THEN v ELSE f[y]]

\* f without the arguments in S
Drop(f, S) == [y \in (DOMAIN f) \ S |-> f[y]]

RECURSIVE DeallocateAll(_, _, _)
\* the loop of ClearOpenList / ClearClosedList: give list[i..] back in order
DeallocateAll(al, list, i) ==
    IF i > Len(list) THEN al ELSE DeallocateAll(deallocate(al, list[i]), list, i + 1)

RECURSIVE ChainFromStart(_, _)
\* Chain with the states written in start-to-goal order
ChainFromStart(nd, p) ==
    IF p = NULL THEN << >> ELSE ChainFromStart(nd, nd[p].m_parent) \o << nd[p].m_node >>

RECURSIVE Chain(_, _)
\* the loop of GetPath / FindPath: the states from node p along the parent pointers
Chain(nd, p) ==
    IF p = NULL THEN << >> ELSE << nd[p].m_node >> \o Chain(nd, nd[p].m_parent)

(***************************************************************************)
(* AStarGeneric                                                            *)
(***************************************************************************)
\* AStarGeneric::AStarGeneric (m_start is not initialised and never read: left out)
NewGeneric ==
    [ m_astarnodeallocator |-> NewAllocator,
      node              |-> << >>,
      m_openlist        |-> << >>,
      m_closedlist      |-> << >>,
      m_helperlist      |-> << >>,
      m_currentnode     |-> NULL,
      m_astaropen       |-> NULL,
      m_goal            |-> NULL,
      m_destinationcost |-> NULL,
      m_getneighbors    |-> NULL ]

\* AStarGeneric::ClearOpenList
ClearOpenList(e) ==
    [e EXCEPT !.m_astarnodeallocator = DeallocateAll(@, e.m_openlist, 1),
              !.node = Drop(@, {e.m_openlist[i] : i \in 1 .. Len(e.m_openlist)}),
              !.m_openlist = << >>]

\* ClearClosedList that releases the nodes and leaves them on the list
ClearClosedListKeeps(e) ==
    [e EXCEPT !.m_astarnodeallocator = DeallocateAll(@, e.m_closedlist, 1),
              !.node = Drop(@, {e.m_closedlist[i] : i \in 1 .. Len(e.m_closedlist)})]

\* AStarGeneric::ClearClosedList
ClearClosedList(e) ==
    [e EXCEPT !.m_astarnodeallocator = DeallocateAll(@, e.m_closedlist, 1),
              !.node = Drop(@, {e.m_closedlist[i] : i \in 1 .. Len(e.m_closedlist)}),
              !.m_closedlist = << >>]

\* std::map::operator[]: the entry of key k, default-constructed when absent
MapTouch(e, k) ==
    IF k \in DOMAIN e.m_helperlist THEN e
    ELSE [e EXCEPT !.m_helperlist = Put(@, k, listelement)]

\* RelaxOpen that never lowers the cost of a node already on the open list
RelaxOpenNever(e, open, movecost) == [e EXCEPT !.m_astaropen = open]

\* RelaxOpen that also takes a path of equal cost
RelaxOpenOnEqual(e, open, movecost) ==
    IF e.node[e.m_currentnode].m_g + movecost <= e.node[open].m_g
    THEN LET nd == [e.node EXCEPT ![open].m_g = e.node[e.m_currentnode].m_g + movecost,
                                  ![open].m_f = e.node[e.m_currentnode].m_g + movecost
                                                  + e.node[open].m_h,
                                  ![open].m_parent = e.m_currentnode]
         IN [e EXCEPT !.node = nd, !.m_openlist = make_heap(nd, @), !.m_astaropen = open]
    ELSE [e EXCEPT !.m_astaropen = open]

\* RelaxOpen that writes the new g into f without adding h
RelaxOpenDropsH(e, open, movecost) ==
    IF e.node[e.m_currentnode].m_g + movecost < e.node[open].m_g
    THEN LET nd == [e.node EXCEPT ![open].m_g = e.node[e.m_currentnode].m_g + movecost,
                                  ![open].m_f = e.node[e.m_currentnode].m_g + movecost,
                                  ![open].m_parent = e.m_currentnode]
         IN [e EXCEPT !.node = nd, !.m_openlist = make_heap(nd, @), !.m_astaropen = open]
    ELSE [e EXCEPT !.m_astaropen = open]

\* RelaxOpen that lowers the cost of the node and leaves the open list as it stands
RelaxOpenNoHeapify(e, open, movecost) ==
    IF e.node[e.m_currentnode].m_g + movecost < e.node[open].m_g
    THEN LET nd == [e.node EXCEPT ![open].m_g = e.node[e.m_currentnode].m_g + movecost,
                                  ![open].m_f = e.node[e.m_currentnode].m_g + movecost
                                                  + e.node[open].m_h,
                                  ![open].m_parent = e.m_currentnode]
         IN [e EXCEPT !.node = nd, !.m_astaropen = open]
    ELSE [e EXCEPT !.m_astaropen = open]

\* RelaxOpen that lowers g and f and keeps the parent the node had
RelaxOpenKeepsParent(e, open, movecost) ==
    IF e.node[e.m_currentnode].m_g + movecost < e.node[open].m_g
    THEN LET nd == [e.node EXCEPT ![open].m_g = e.node[e.m_currentnode].m_g + movecost,
                                  ![open].m_f = e.node[e.m_currentnode].m_g + movecost
                                                  + e.node[open].m_h]
         IN [e EXCEPT !.node = nd, !.m_openlist = make_heap(nd, @), !.m_astaropen = open]
    ELSE [e EXCEPT !.m_astaropen = open]

\* AddNeighbor, lines 246-256: the neighbor is on the open list
RelaxOpen(e, open, movecost) ==
    IF e.node[e.m_currentnode].m_g + movecost < e.node[open].m_g
    THEN LET nd == [e.node EXCEPT ![open].m_g = e.node[e.m_currentnode].m_g + movecost,
                                  ![open].m_f = e.node[e.m_currentnode].m_g + movecost
                                                  + e.node[open].m_h,
                                  ![open].m_parent = e.m_currentnode]
         IN [e EXCEPT !.node = nd, !.m_openlist = make_heap(nd, @), !.m_astaropen = open]
    ELSE [e EXCEPT !.m_astaropen = open]

\* OpenNew that creates the node and marks it open without pushing it on the open list
OpenNewNoPush(e, neighbor, movecost) ==
    LET newnode == allocate_ptr(e.m_astarnodeallocator)
        g  == e.node[e.m_currentnode].m_g + movecost
        h  == destinationcost(neighbor, e.m_goal)
        nd == Put(e.node, newnode, [m_node |-> neighbor, m_parent |-> e.m_currentnode,
                                    m_g |-> g, m_h |-> h, m_f |-> g + h])
    IN [e EXCEPT !.m_astarnodeallocator = allocate_al(@),
                 !.node = nd,
                 !.m_helperlist = Put(@, neighbor, [m_node |-> newnode, m_onopen |-> TRUE,
                                                    m_onclosed |-> e.m_helperlist[neighbor].m_onclosed]),
                 !.m_astaropen = NULL]

\* OpenNew that gives the new node no parent
OpenNewOrphan(e, neighbor, movecost) ==
    LET newnode == allocate_ptr(e.m_astarnodeallocator)
        g  == e.node[e.m_currentnode].m_g + movecost
        h  == destinationcost(neighbor, e.m_goal)
        nd == Put(e.node, newnode, [m_node |-> neighbor, m_parent |-> NULL,
                                    m_g |-> g, m_h |-> h, m_f |-> g + h])
    IN [e EXCEPT !.m_astarnodeallocator = allocate_al(@),
                 !.node = nd,
                 !.m_openlist = push_heap(nd, Append(@, newnode)),
                 !.m_helperlist = Put(@, neighbor, [m_node |-> newnode, m_onopen |-> TRUE,
                                                    m_onclosed |-> e.m_helperlist[neighbor].m_onclosed]),
                 !.m_astaropen = NULL]

\* AddNeighbor, lines 258-271: the neighbor has no node yet
OpenNew(e, neighbor, movecost) ==
    LET newnode == allocate_ptr(e.m_astarnodeallocator)
        g  == e.node[e.m_currentnode].m_g + movecost
        h  == destinationcost(neighbor, e.m_goal)
        nd == Put(e.node, newnode, [m_node |-> neighbor, m_parent |-> e.m_currentnode,
                                    m_g |-> g, m_h |-> h, m_f |-> g + h])
    IN [e EXCEPT !.m_astarnodeallocator = allocate_al(@),
                 !.node = nd,
                 !.m_openlist = push_heap(nd, Append(@, newnode)),
                 !.m_helperlist = Put(@, neighbor, [m_node |-> newnode, m_onopen |-> TRUE,
                                                    m_onclosed |-> e.m_helperlist[neighbor].m_onclosed]),
                 !.m_astaropen = NULL]

\* AddNeighbor that relaxes the node of a neighbor whether it is closed or not
AddNeighborRelaxesClosed(e, neighbor, movecost) ==
    LET t == MapTouch(e, neighbor)
    IN IF t.m_helperlist[neighbor].m_node # NULL
       THEN RelaxOpen(t, t.m_helperlist[neighbor].m_node, movecost)
       ELSE OpenNew(t, neighbor, movecost)

\* AStarGeneric::AddNeighbor
AddNeighbor(e, neighbor, movecost) ==
    LET t == MapTouch(e, neighbor)
    IN IF t.m_helperlist[neighbor].m_onclosed = FALSE
       THEN IF t.m_helperlist[neighbor].m_node # NULL
            THEN RelaxOpen(t, t.m_helperlist[neighbor].m_node, movecost)
            ELSE OpenNew(t, neighbor, movecost)
       ELSE t

RECURSIVE EmitNeighbors(_, _, _)
\* the caller's IGetNeighbors functor: AddNeighborFunctor called once per move, in order
EmitNeighbors(e, nbrs, i) ==
    IF i > Len(nbrs) THEN e
    ELSE EmitNeighbors(AddNeighbor(e, nbrs[i][1], nbrs[i][2]), nbrs, i + 1)

\* IGetNeighbors::operator()(node, addneighborfunctor)
getneighbors(e, state) == EmitNeighbors(e, graph[state], 1)

\* SeedStart that seeds the start node with g = 0
SeedStartZero(e, start, goal) ==
    LET c  == [ClearClosedList(ClearOpenList(e)) EXCEPT !.m_helperlist = << >>,
                                                        !.m_astaropen = NULL,
                                                        !.m_goal = goal,
                                                        !.m_destinationcost = 1,
                                                        !.m_currentnode = NULL]
        newnode == allocate_ptr(c.m_astarnodeallocator)
        nd == Put(c.node, newnode, [m_node |-> start, m_parent |-> NULL,
                                    m_g |-> 0, m_h |-> 0, m_f |-> 0])
    IN [c EXCEPT !.m_astarnodeallocator = allocate_al(@),
                 !.node = nd,
                 !.m_openlist = push_heap(nd, Append(@, newnode)),
                 !.m_helperlist = Put(@, start, [m_node |-> newnode, m_onopen |-> TRUE,
                                                 m_onclosed |-> FALSE])]

\* SeedStart that keeps the closed list of the earlier search
SeedStartKeepsClosed(e, start, goal) ==
    LET c  == [ClearOpenList(e) EXCEPT !.m_helperlist = << >>,
                                       !.m_astaropen = NULL,
                                       !.m_goal = goal,
                                       !.m_destinationcost = 1,
                                       !.m_currentnode = NULL]
        newnode == allocate_ptr(c.m_astarnodeallocator)
        nd == Put(c.node, newnode, [m_node |-> start, m_parent |-> NULL,
                                    m_g |-> destinationcost(start, goal), m_h |-> 0,
                                    m_f |-> destinationcost(start, goal) + 0])
    IN [c EXCEPT !.m_astarnodeallocator = allocate_al(@),
                 !.node = nd,
                 !.m_openlist = push_heap(nd, Append(@, newnode)),
                 !.m_helperlist = Put(@, start, [m_node |-> newnode, m_onopen |-> TRUE,
                                                 m_onclosed |-> FALSE])]

\* FindPath lines 299-322 / InitializeStep lines 375-394: clear, then seed the start node
SeedStart(e, start, goal) ==
    LET c  == [ClearClosedList(ClearOpenList(e)) EXCEPT !.m_helperlist = << >>,
                                                        !.m_astaropen = NULL,
                                                        !.m_goal = goal,
                                                        !.m_destinationcost = 1,
                                                        !.m_currentnode = NULL]
        newnode == allocate_ptr(c.m_astarnodeallocator)
        nd == Put(c.node, newnode, [m_node |-> start, m_parent |-> NULL,
                                    m_g |-> destinationcost(start, goal), m_h |-> 0,
                                    m_f |-> destinationcost(start, goal) + 0])
    IN [c EXCEPT !.m_astarnodeallocator = allocate_al(@),
                 !.node = nd,
                 !.m_openlist = push_heap(nd, Append(@, newnode)),
                 !.m_helperlist = Put(@, start, [m_node |-> newnode, m_onopen |-> TRUE,
                                                 m_onclosed |-> FALSE])]

\* PopFront that marks the node closed without pushing it on the closed list
PopFrontNoClose(e) ==
    LET cur == e.m_openlist[1]
        st  == e.node[cur].m_node
        t   == MapTouch(e, st)
    IN [t EXCEPT !.m_currentnode = cur,
                 !.m_openlist = pop_heap(e.node, @),
                 !.m_helperlist = [@ EXCEPT ![st].m_onopen = FALSE, ![st].m_onclosed = TRUE]]

\* PopFront that closes the node without clearing its m_onopen flag
PopFrontKeepsOpen(e) ==
    LET cur == e.m_openlist[1]
        st  == e.node[cur].m_node
        t   == MapTouch(e, st)
    IN [t EXCEPT !.m_currentnode = cur,
                 !.m_openlist = pop_heap(e.node, @),
                 !.m_closedlist = Append(@, cur),
                 !.m_helperlist = [@ EXCEPT ![st].m_onclosed = TRUE]]

\* FindPath lines 326-333 / Step lines 403-410: pop the front node and close it
PopFront(e) ==
    LET cur == e.m_openlist[1]
        st  == e.node[cur].m_node
        t   == MapTouch(e, st)
    IN [t EXCEPT !.m_currentnode = cur,
                 !.m_openlist = pop_heap(e.node, @),
                 !.m_closedlist = Append(@, cur),
                 !.m_helperlist = [@ EXCEPT ![st].m_onopen = FALSE, ![st].m_onclosed = TRUE]]

RECURSIVE FindPathLoop(_, _, _, _)
\* the while loop of AStarGeneric::FindPath, lines 324-352
FindPathLoop(e, goal, fp, expanded) ==
    IF Len(e.m_openlist) > 0
    THEN LET p == PopFront(e)
             st == p.node[p.m_currentnode].m_node
         IN IF st # goal
            THEN FindPathLoop(getneighbors(p, st), goal, fp, Append(expanded, st))
            ELSE [e |-> [p EXCEPT !.m_currentnode = NULL], result |-> PATH_FOUND,
                  finalpath |-> Chain(p.node, p.m_currentnode), expanded |-> expanded,
                  goalg |-> p.node[p.m_currentnode].m_g]
    ELSE [e |-> e, result |-> PATH_NOTFOUND, finalpath |-> fp,
          expanded |-> expanded, goalg |-> NULL]

\* FindPath that empties the caller's vector before it searches
FindPathClearsFirst(e, start, goal, fp) ==
    FindPathLoop(SeedStart(e, start, goal), goal, << >>, << >>)

\* AStarGeneric::FindPath
FindPath(e, start, goal, fp) ==
    FindPathLoop(SeedStart(e, start, goal), goal, fp, << >>)

\* GetPath that yields the chain only once the goal has been popped
GetPathOnlyAtGoal(e) ==
    IF e.m_currentnode # NULL /\ e.node[e.m_currentnode].m_node = e.m_goal
    THEN Chain(e.node, e.m_currentnode) ELSE << >>

\* AStarGeneric::GetPath
GetPath(e) == Chain(e.node, e.m_currentnode)

\* AStarGeneric::InitializeStep
InitializeStep(e, start, goal) ==
    [SeedStart(e, start, goal) EXCEPT !.m_getneighbors = 1]

\* Step that pops and closes the front node without enumerating its neighbors
StepEngineNoExpand(e) ==
    IF Len(e.m_openlist) > 0 THEN PopFront(e) ELSE e

\* Step that enumerates the neighbors of the popped node also when it is the goal
StepEngineExpandsGoal(e) ==
    IF Len(e.m_openlist) > 0
    THEN getneighbors(PopFront(e), e.node[e.m_openlist[1]].m_node)
    ELSE e

\* Step that leaves the engine as it is
StepEngineIdle(e) == e

\* AStarGeneric::Step: the engine afterwards
StepEngine(e) ==
    IF Len(e.m_openlist) > 0
    THEN LET p == PopFront(e)
             st == p.node[p.m_currentnode].m_node
         IN IF st # e.m_goal THEN getneighbors(p, st) ELSE p
    ELSE e

\* AStarGeneric::Step: the value returned
StepResult(e) ==
    IF Len(e.m_openlist) > 0
    THEN IF e.node[e.m_openlist[1]].m_node # e.m_goal THEN PATH_SEARCHING ELSE PATH_FOUND
    ELSE PATH_NOTFOUND

(***************************************************************************)
(* AStarGenericCached                                                      *)
(***************************************************************************)
\* the index the caller assigns to a state
IndexOf(state) == state + indexbase

\* a < b for two long values converted to unsigned long (two's complement)
UnsignedLess(a, b) == IF (a < 0) = (b < 0) THEN a < b ELSE b < 0

\* n default-constructed elements
Fill(n, x) == [i \in 1 .. n |-> x]

\* cacheelement::cacheelement
cacheelement == [m_hascache |-> FALSE, m_neighbors |-> << >>]

\* AStarGenericCached::AStarGenericCached
NewCached ==
    [ m_astarnodeallocator |-> NewAllocator,
      node              |-> << >>,
      m_openlist        |-> << >>,
      m_closedlist      |-> << >>,
      m_helperlist      |-> << >>,
      m_helperliststartindex |-> 0,
      m_currentnode     |-> NULL,
      m_astaropen       |-> NULL,
      m_goal            |-> NULL,
      m_destinationcost |-> NULL,
      m_getneighbors    |-> NULL,
      m_cache           |-> << >>,
      m_cachestartindex |-> 0 ]

\* hl that puts the slots of a growth at the front behind the others
hlGrowsBehind(e, index) ==
    IF Len(e.m_helperlist) = 0
    THEN [e EXCEPT !.m_helperlist = << listelement >>, !.m_helperliststartindex = index]
    ELSE IF index < e.m_helperliststartindex
    THEN [e EXCEPT !.m_helperlist = @ \o Fill(e.m_helperliststartindex - index, listelement),
                   !.m_helperliststartindex = index]
    ELSE IF ~UnsignedLess(index - e.m_helperliststartindex, Len(e.m_helperlist))
    THEN [e EXCEPT !.m_helperlist =
                      @ \o Fill(((index - e.m_helperliststartindex) + 1) - Len(e.m_helperlist),
                                listelement)]
    ELSE e

\* AStarGenericCached::hl: the engine with the window grown to hold index
hl(e, index) ==
    IF Len(e.m_helperlist) = 0
    THEN [e EXCEPT !.m_helperlist = << listelement >>, !.m_helperliststartindex = index]
    ELSE IF index < e.m_helperliststartindex
    THEN [e EXCEPT !.m_helperlist = Fill(e.m_helperliststartindex - index, listelement) \o @,
                   !.m_helperliststartindex = index]
    ELSE IF ~UnsignedLess(index - e.m_helperliststartindex, Len(e.m_helperlist))
    THEN [e EXCEPT !.m_helperlist =
                      @ \o Fill(((index - e.m_helperliststartindex) + 1) - Len(e.m_helperlist),
                                listelement)]
    ELSE e

\* m_helperlist[index - m_helperliststartindex]
HlAt(e, index) == e.m_helperlist[(index - e.m_helperliststartindex) + 1]

\* OpenNewCached that gives the new node the estimate 0
OpenNewCachedZeroH(e, neighbor, neighborindex, movecost) ==
    LET newnode == allocate_ptr(e.m_astarnodeallocator)
        g  == e.node[e.m_currentnode].m_g + movecost
        nd == Put(e.node, newnode, [m_node |-> neighbor, m_parent |-> e.m_currentnode,
                                    m_g |-> g, m_h |-> 0, m_f |-> g,
                                    m_index |-> neighborindex])
        w  == hl(e, neighborindex)
    IN [w EXCEPT !.m_astarnodeallocator = allocate_al(@),
                 !.node = nd,
                 !.m_openlist = push_heap(nd, Append(@, newnode)),
                 !.m_helperlist[(neighborindex - w.m_helperliststartindex) + 1] =
                      [@ EXCEPT !.m_onopen = TRUE, !.m_node = newnode],
                 !.m_astaropen = NULL]

\* AddNeighborCached lines 307-323 / FindPath lines 450-464: the neighbor has no node yet
OpenNewCached(e, neighbor, neighborindex, movecost) ==
    LET newnode == allocate_ptr(e.m_astarnodeallocator)
        g  == e.node[e.m_currentnode].m_g + movecost
        h  == destinationcost(neighbor, e.m_goal)
        nd == Put(e.node, newnode, [m_node |-> neighbor, m_parent |-> e.m_currentnode,
                                    m_g |-> g, m_h |-> h, m_f |-> g + h,
                                    m_index |-> neighborindex])
        w  == hl(e, neighborindex)
    IN [w EXCEPT !.m_astarnodeallocator = allocate_al(@),
                 !.node = nd,
                 !.m_openlist = push_heap(nd, Append(@, newnode)),
                 !.m_helperlist[(neighborindex - w.m_helperliststartindex) + 1] =
                      [@ EXCEPT !.m_onopen = TRUE, !.m_node = newnode],
                 !.m_astaropen = NULL]

\* AddNeighborCached lines 289-324 / FindPath lines 431-466: relax one neighbor
RelaxCached(e, neighbor, neighborindex, movecost) ==
    LET w == hl(e, neighborindex)
    IN IF HlAt(w, neighborindex).m_onclosed = FALSE
       THEN IF HlAt(w, neighborindex).m_node # NULL
            THEN RelaxOpen(w, HlAt(w, neighborindex).m_node, movecost)
            ELSE OpenNewCached(w, neighbor, neighborindex, movecost)
       ELSE w

\* RecordNeighbor that leaves out the neighbors that are on the closed list
RecordNeighborIfOpen(e, neighbor, neighborindex, movecost) ==
    IF HlAt(e, neighborindex).m_onclosed THEN e
    ELSE LET ci == e.node[e.m_currentnode].m_index
             w  == IF Len(e.m_cache) = 0
                   THEN [e EXCEPT !.m_cache = << cacheelement >>, !.m_cachestartindex = ci]
                   ELSE IF ci < e.m_cachestartindex
                   THEN [e EXCEPT !.m_cache = Fill(e.m_cachestartindex - ci, cacheelement) \o @,
                                  !.m_cachestartindex = ci]
                   ELSE IF ~UnsignedLess(ci - e.m_cachestartindex, Len(e.m_cache))
                   THEN [e EXCEPT !.m_cache =
                                     @ \o Fill(((ci - e.m_cachestartindex) + 1) - Len(e.m_cache),
                                               cacheelement)]
                   ELSE e
         IN [w EXCEPT !.m_cache[(ci - w.m_cachestartindex) + 1] =
                         [m_hascache |-> TRUE,
                          m_neighbors |-> Append(@.m_neighbors,
                                                 <<neighbor, neighborindex, movecost>>)]]

\* AddNeighborCached lines 326-343: append the triple to the entry of the current node
RecordNeighbor(e, neighbor, neighborindex, movecost) ==
    LET ci == e.node[e.m_currentnode].m_index
        w  == IF Len(e.m_cache) = 0
              THEN [e EXCEPT !.m_cache = << cacheelement >>, !.m_cachestartindex = ci]
              ELSE IF ci < e.m_cachestartindex
              THEN [e EXCEPT !.m_cache = Fill(e.m_cachestartindex - ci, cacheelement) \o @,
                             !.m_cachestartindex = ci]
              ELSE IF ~UnsignedLess(ci - e.m_cachestartindex, Len(e.m_cache))
              THEN [e EXCEPT !.m_cache =
                                @ \o Fill(((ci - e.m_cachestartindex) + 1) - Len(e.m_cache),
                                          cacheelement)]
              ELSE e
    IN [w EXCEPT !.m_cache[(ci - w.m_cachestartindex) + 1] =
                    [m_hascache |-> TRUE,
                     m_neighbors |-> Append(@.m_neighbors, <<neighbor, neighborindex, movecost>>)]]

\* AddNeighborCached that records the move one dearer than it relaxed it
AddNeighborCachedDearer(e, neighbor, neighborindex, movecost) ==
    RecordNeighbor(RelaxCached(e, neighbor, neighborindex, movecost),
                   neighbor, neighborindex, movecost + 1)

\* AStarGenericCached::AddNeighborCached
AddNeighborCached(e, neighbor, neighborindex, movecost) ==
    RecordNeighbor(RelaxCached(e, neighbor, neighborindex, movecost),
                   neighbor, neighborindex, movecost)

RECURSIVE EmitNeighborsCached(_, _, _)
\* the caller's IGetNeighbors functor: AddNeighborFunctor called once per move, in order
EmitNeighborsCached(e, nbrs, i) ==
    IF i > Len(nbrs) THEN e
    ELSE EmitNeighborsCached(
             AddNeighborCached(e, nbrs[i][1], IndexOf(nbrs[i][1]), nbrs[i][2]), nbrs, i + 1)

\* IGetNeighbors::operator()(node, addneighborfunctor) of the cached engine
getneighborsCached(e, state) == EmitNeighborsCached(e, graph[state], 1)

\* AStarGenericCached::ClearCache
ClearCache(e) == [e EXCEPT !.m_cache = << >>, !.m_cachestartindex = 0]

\* ClearCacheIndex that drops every entry of the window when the index is inside it
ClearCacheIndexWhole(e, index) ==
    IF index >= e.m_cachestartindex
         /\ UnsignedLess(index - e.m_cachestartindex, Len(e.m_cache))
    THEN [e EXCEPT !.m_cache = [k \in 1 .. Len(e.m_cache) |-> cacheelement]]
    ELSE e

\* AStarGenericCached::ClearCacheIndex
ClearCacheIndex(e, index) ==
    IF index >= e.m_cachestartindex
         /\ UnsignedLess(index - e.m_cachestartindex, Len(e.m_cache))
    THEN [e EXCEPT !.m_cache[(index - e.m_cachestartindex) + 1] = cacheelement]
    ELSE e

\* FindPath line 427 / Step line 553: the entry of the current node may be replayed
CacheHit(e) ==
    LET ci == e.node[e.m_currentnode].m_index
    IN /\ ci >= e.m_cachestartindex
       /\ UnsignedLess(ci, e.m_cachestartindex + Len(e.m_cache))
       /\ e.m_cache[(ci - e.m_cachestartindex) + 1].m_hascache

RECURSIVE ReplayNeighbors(_, _, _)
\* FindPath lines 429-467 / Step lines 555-593: relax the recorded triples in order
ReplayNeighbors(e, nbrs, i) ==
    IF i > Len(nbrs) THEN e
    ELSE ReplayNeighbors(RelaxCached(e, nbrs[i][1], nbrs[i][2], nbrs[i][3]), nbrs, i + 1)

\* FindPath lines 424-473 / Step lines 550-599: expand the node just popped
ExpandCached(e) ==
    IF CacheHit(e)
    THEN ReplayNeighbors(e, e.m_cache[(e.node[e.m_currentnode].m_index
                                         - e.m_cachestartindex) + 1].m_neighbors, 1)
    ELSE getneighborsCached(e, e.node[e.m_currentnode].m_node)

\* FindPath lines 386-411 / InitializeStep lines 510-531: clear, then seed the start node
SeedStartCached(e, start, startindex, goal) ==
    LET c  == [ClearClosedList(ClearOpenList(e)) EXCEPT !.m_helperlist = << >>,
                                                        !.m_helperliststartindex = 0,
                                                        !.m_astaropen = NULL,
                                                        !.m_goal = goal,
                                                        !.m_destinationcost = 1,
                                                        !.m_currentnode = NULL]
        newnode == allocate_ptr(c.m_astarnodeallocator)
        nd == Put(c.node, newnode, [m_node |-> start, m_parent |-> NULL,
                                    m_g |-> destinationcost(start, goal), m_h |-> 0,
                                    m_f |-> destinationcost(start, goal) + 0,
                                    m_index |-> startindex])
        w  == hl(c, startindex)
    IN [w EXCEPT !.m_astarnodeallocator = allocate_al(@),
                 !.node = nd,
                 !.m_openlist = push_heap(nd, Append(@, newnode)),
                 !.m_helperlist[(startindex - w.m_helperliststartindex) + 1] =
                      [@ EXCEPT !.m_node = newnode, !.m_onopen = TRUE]]

\* FindPath lines 415-422 / Step lines 541-548: pop the front node and close it
PopFrontCached(e) ==
    LET cur == e.m_openlist[1]
        at  == (e.node[cur].m_index - e.m_helperliststartindex) + 1
    IN [e EXCEPT !.m_currentnode = cur,
                 !.m_openlist = pop_heap(e.node, @),
                 !.m_closedlist = Append(@, cur),
                 !.m_helperlist[at] = [@ EXCEPT !.m_onopen = FALSE, !.m_onclosed = TRUE]]

RECURSIVE FindPathLoopCached(_, _, _, _, _)
\* the while loop of AStarGenericCached::FindPath, lines 413-487
FindPathLoopCached(e, goal, fp, expanded, replayed) ==
    IF Len(e.m_openlist) > 0
    THEN LET p == PopFrontCached(e)
             st == p.node[p.m_currentnode].m_node
         IN IF st # goal
            THEN FindPathLoopCached(ExpandCached(p), goal, fp,
                                    IF CacheHit(p) THEN expanded ELSE Append(expanded, st),
                                    IF CacheHit(p) THEN Append(replayed, st) ELSE replayed)
            ELSE [e |-> [p EXCEPT !.m_currentnode = NULL], result |-> PATH_FOUND,
                  finalpath |-> Chain(p.node, p.m_currentnode), expanded |-> expanded,
                  replayed |-> replayed, goalg |-> p.node[p.m_currentnode].m_g]
    ELSE [e |-> e, result |-> PATH_NOTFOUND, finalpath |-> fp,
          expanded |-> expanded, replayed |-> replayed, goalg |-> NULL]

\* AStarGenericCached::FindPath
FindPathCached(e, start, startindex, goal, fp) ==
    FindPathLoopCached(SeedStartCached(e, start, startindex, goal), goal, fp, << >>, << >>)

\* AStarGenericCached::InitializeStep
InitializeStepCached(e, start, startindex, goal) ==
    [SeedStartCached(e, start, startindex, goal) EXCEPT !.m_getneighbors = 1]

\* AStarGenericCached::Step: the engine afterwards
StepEngineCached(e) ==
    IF Len(e.m_openlist) > 0
    THEN LET p == PopFrontCached(e)
         IN IF p.node[p.m_currentnode].m_node # e.m_goal THEN ExpandCached(p) ELSE p
    ELSE e

\* the node Step is about to pop would be expanded from its cache entry
NextIsCacheHit(e) ==
    Len(e.m_openlist) > 0 /\ CacheHit([e EXCEPT !.m_currentnode = e.m_openlist[1]])

RECURSIVE StepRunCached(_, _, _)
\* the caller's loop: Step until it returns something other than PATH_SEARCHING
StepRunCached(e, expanded, replayed) ==
    IF StepResult(e) = PATH_SEARCHING
    THEN StepRunCached(StepEngineCached(e),
                       IF NextIsCacheHit(e) THEN expanded
                       ELSE Append(expanded, e.node[e.m_openlist[1]].m_node),
                       IF NextIsCacheHit(e)
                       THEN Append(replayed, e.node[e.m_openlist[1]].m_node)
                       ELSE replayed)
    ELSE [e |-> StepEngineCached(e), result |-> StepResult(e),
          expanded |-> expanded, replayed |-> replayed,
          goalg |-> IF StepResult(e) = PATH_FOUND THEN e.node[e.m_openlist[1]].m_g ELSE NULL]

RECURSIVE StepRun(_, _)
\* the caller's loop: Step until it returns something other than PATH_SEARCHING
StepRun(e, expanded) ==
    IF StepResult(e) = PATH_SEARCHING
    THEN StepRun(StepEngine(e), Append(expanded, e.node[e.m_openlist[1]].m_node))
    ELSE [e |-> StepEngine(e), result |-> StepResult(e), expanded |-> expanded,
          replayed |-> << >>,
          goalg |-> IF StepResult(e) = PATH_FOUND THEN e.node[e.m_openlist[1]].m_g ELSE NULL]

(***************************************************************************)
(* AStarTile8DirCached, the FindPath overload without a moveblocked        *)
(* functor.  A position is <<x, y>> (std::pair first, second).             *)
(***************************************************************************)
\* |a|
Abs(a) == IF a < 0 THEN 0 - a ELSE a

\* the caller's IMoveCost functor: a straight move costs terrain.straight, a diagonal
\* move terrain.diagonal
movecost(start, end) ==
    IF start[1] # end[1] /\ start[2] # end[2] THEN terrain.diagonal ELSE terrain.straight

\* the caller's IDestinationCost functor on positions: terrain.h times the number of
\* king moves between node and goal
tiledestinationcost(node, goal) ==
    terrain.h * (IF Abs(node[1] - goal[1]) > Abs(node[2] - goal[2])
                 THEN Abs(node[1] - goal[1]) ELSE Abs(node[2] - goal[2]))

\* AStarTile8DirCached::AStarTile8DirCached; currentnode and astaropen stand for the
\* locals of FindPath of those names
NewTile ==
    [ m_astarnodeallocator |-> NewAllocator,
      node              |-> << >>,
      m_openlist        |-> << >>,
      m_closedlist      |-> << >>,
      m_helperlist      |-> << >>,
      m_helperliststartindex |-> 0,
      m_mapwidth        |-> 0,
      m_cache           |-> << >>,
      m_cachestartindex |-> 0,
      currentnode       |-> NULL,
      astaropen         |-> NULL ]

\* (pos.second * m_mapwidth) + pos.first
TileIndex(e, pos) == (pos[2] * e.m_mapwidth) + pos[1]

\* FindPath lines 328-336 / 391-399: the position has a node on the open list
TileRelaxOpen(e, pos) ==
    LET cur  == e.node[e.currentnode]
        open == e.astaropen
    IN IF cur.m_g + movecost(cur.m_node, pos) < e.node[open].m_g
       THEN LET nd == [e.node EXCEPT ![open].m_g = cur.m_g + movecost(cur.m_node, pos),
                                     ![open].m_f = cur.m_g + movecost(cur.m_node, pos)
                                                     + e.node[open].m_h,
                                     ![open].m_parent = e.currentnode]
            IN [e EXCEPT !.node = nd, !.m_openlist = make_heap(nd, @)]
       ELSE e

\* FindPath lines 339-351 / 402-414: the position has no node yet
TileOpenNew(e, pos, goal) ==
    LET cur == e.node[e.currentnode]
        newnode == allocate_ptr(e.m_astarnodeallocator)
        g  == cur.m_g + movecost(cur.m_node, pos)
        h  == tiledestinationcost(pos, goal)
        nd == Put(e.node, newnode, [m_node |-> pos, m_parent |-> e.currentnode,
                                    m_g |-> g, m_h |-> h, m_f |-> g + h])
        w  == hl(e, TileIndex(e, pos))
    IN [w EXCEPT !.m_astarnodeallocator = allocate_al(@),
                 !.node = nd,
                 !.m_openlist = push_heap(nd, Append(@, newnode)),
                 !.m_helperlist[(TileIndex(e, pos) - w.m_helperliststartindex) + 1] =
                      [@ EXCEPT !.m_onopen = TRUE, !.m_node = newnode]]

\* FindPath lines 321-353 (replay, live = FALSE) and 382-419 (live = TRUE): one
\* neighbor position; only the live loop appends to the cache entry, and only for a
\* neighbor that is not closed
TileNeighbor(e, pos, goal, live) ==
    LET w  == hl(e, TileIndex(e, pos))
        at == (TileIndex(e, pos) - w.m_helperliststartindex) + 1
        ci == (TileIndex(e, e.node[e.currentnode].m_node) - e.m_cachestartindex) + 1
        r  == IF w.m_helperlist[at].m_node # NULL
              THEN TileRelaxOpen([w EXCEPT !.astaropen = w.m_helperlist[at].m_node], pos)
              ELSE TileOpenNew([w EXCEPT !.astaropen = NULL], pos, goal)
    IN IF w.m_helperlist[at].m_onclosed = FALSE
       THEN IF live
            THEN [r EXCEPT !.m_cache[ci].m_neighbors =
                              Append(@, <<pos, movecost(e.node[e.currentnode].m_node, pos)>>)]
            ELSE r
       ELSE w

\* the order of the loops at lines 376-378: yy outermost, the position itself left out
Around(pos) ==
    << <<pos[1] - 1, pos[2] - 1>>, <<pos[1], pos[2] - 1>>, <<pos[1] + 1, pos[2] - 1>>,
       <<pos[1] - 1, pos[2]>>,                             <<pos[1] + 1, pos[2]>>,
       <<pos[1] - 1, pos[2] + 1>>, <<pos[1], pos[2] + 1>>, <<pos[1] + 1, pos[2] + 1>> >>

RECURSIVE TileNeighbors(_, _, _, _, _)
\* the loops at lines 317-354 (over the cache entry) and 376-422 (over the 8 positions)
TileNeighbors(e, nbrs, i, goal, live) ==
    IF i > Len(nbrs) THEN e
    ELSE TileNeighbors(TileNeighbor(e, nbrs[i], goal, live), nbrs, i + 1, goal, live)

\* FindPath lines 313-314: the entry of the current position may be replayed
TileCacheHit(e) ==
    LET ci == TileIndex(e, e.node[e.currentnode].m_node)
    IN /\ ci >= e.m_cachestartindex
       /\ UnsignedLess(ci, e.m_cachestartindex + Len(e.m_cache))
       /\ e.m_cache[(ci - e.m_cachestartindex) + 1].m_hascache

\* FindPath lines 360-374: grow the cache window to the current index and mark its entry
TileOpenEntry(e) ==
    LET ci == TileIndex(e, e.node[e.currentnode].m_node)
        w  == IF Len(e.m_cache) = 0
              THEN [e EXCEPT !.m_cache = << cacheelement >>, !.m_cachestartindex = ci]
              ELSE IF ci < e.m_cachestartindex
              THEN [e EXCEPT !.m_cache = Fill(e.m_cachestartindex - ci, cacheelement) \o @,
                             !.m_cachestartindex = ci]
              ELSE IF ~UnsignedLess(ci - e.m_cachestartindex, Len(e.m_cache))
              THEN [e EXCEPT !.m_cache =
                                @ \o Fill(((ci - e.m_cachestartindex) + 1) - Len(e.m_cache),
                                          cacheelement)]
              ELSE e
    IN [w EXCEPT !.m_cache[(ci - w.m_cachestartindex) + 1].m_hascache = TRUE]

\* the positions of a cache entry, in recorded order
EntryPositions(entry) == [i \in 1 .. Len(entry.m_neighbors) |-> entry.m_neighbors[i][1]]

\* FindPath lines 311-423: expand the position just popped
TileExpand(e, goal) ==
    IF TileCacheHit(e)
    THEN TileNeighbors(e, EntryPositions(e.m_cache[(TileIndex(e, e.node[e.currentnode].m_node)
                                                      - e.m_cachestartindex) + 1]),
                       1, goal, FALSE)
    ELSE TileNeighbors(TileOpenEntry(e), Around(e.node[e.currentnode].m_node), 1, goal, TRUE)

\* FindPath lines 274-298: clear, then seed the start node
TileSeedStart(e, start, goal) ==
    LET c  == [ClearClosedList(ClearOpenList(e)) EXCEPT !.m_helperlist = << >>,
                                                        !.m_helperliststartindex = 0,
                                                        !.currentnode = NULL,
                                                        !.astaropen = NULL]
        newnode == allocate_ptr(c.m_astarnodeallocator)
        nd == Put(c.node, newnode, [m_node |-> start, m_parent |-> NULL,
                                    m_g |-> tiledestinationcost(start, goal), m_h |-> 0,
                                    m_f |-> tiledestinationcost(start, goal) + 0])
        w  == hl(c, TileIndex(c, start))
    IN [w EXCEPT !.m_astarnodeallocator = allocate_al(@),
                 !.node = nd,
                 !.m_openlist = push_heap(nd, Append(@, newnode)),
                 !.m_helperlist[(TileIndex(c, start) - w.m_helperliststartindex) + 1] =
                      [@ EXCEPT !.m_node = newnode, !.m_onopen = TRUE]]

\* FindPath lines 302-309: pop the front node and close it
TilePopFront(e) ==
    LET cur == e.m_openlist[1]
        at  == (TileIndex(e, e.node[cur].m_node) - e.m_helperliststartindex) + 1
    IN [e EXCEPT !.currentnode = cur,
                 !.m_openlist = pop_heap(e.node, @),
                 !.m_closedlist = Append(@, cur),
                 !.m_helperlist[at] = [@ EXCEPT !.m_onopen = FALSE, !.m_onclosed = TRUE]]

RECURSIVE TileFindPathLoop(_, _, _, _, _, _)
\* the while loop of FindPath, lines 300-436; the result is NULL when the loop is still
\* running after MaxPops pops (the grid has no edge, so the open list never runs dry)
TileFindPathLoop(e, goal, fp, expanded, replayed, pops) ==
    IF pops = MaxPops
    THEN [e |-> e, result |-> NULL, finalpath |-> fp, expanded |-> expanded,
          replayed |-> replayed, goalg |-> NULL]
    ELSE IF Len(e.m_openlist) > 0
    THEN LET p == TilePopFront(e)
             st == p.node[p.currentnode].m_node
         IN IF st # goal
            THEN TileFindPathLoop(TileExpand(p, goal), goal, fp,
                                  IF TileCacheHit(p) THEN expanded ELSE Append(expanded, st),
                                  IF TileCacheHit(p) THEN Append(replayed, st) ELSE replayed,
                                  pops + 1)
            ELSE [e |-> [p EXCEPT !.currentnode = NULL, !.astaropen = NULL],
                  result |-> PATH_FOUND,
                  finalpath |-> Chain(p.node, p.currentnode), expanded |-> expanded,
                  replayed |-> replayed, goalg |-> p.node[p.currentnode].m_g]
    ELSE [e |-> [e EXCEPT !.currentnode = NULL, !.astaropen = NULL],
          result |-> PATH_NOTFOUND, finalpath |-> fp,
          expanded |-> expanded, replayed |-> replayed, goalg |-> NULL]

\* AStarTile8DirCached::FindPath(start, goal, finalpath, movecost, destinationcost)
TileFindPath(e, start, goal, fp) ==
    TileFindPathLoop(TileSeedStart(e, start, goal), goal, fp, << >>, << >>, 0)

\* the caller's IMoveBlocked functor as pathfinder.h documents it: it returns true when
\* end is directly reachable from start, which here is when end is not in walls
moveblocked(start, end) == end \notin walls

\* FindPath with moveblocked, lines 531-544: grow the cache window to the current index
TileGrowCache(e) ==
    LET ci == TileIndex(e, e.node[e.currentnode].m_node)
    IN IF Len(e.m_cache) = 0
       THEN [e EXCEPT !.m_cache = << cacheelement >>, !.m_cachestartindex = ci]
       ELSE IF ci < e.m_cachestartindex
       THEN [e EXCEPT !.m_cache = Fill(e.m_cachestartindex - ci, cacheelement) \o @,
                      !.m_cachestartindex = ci]
       ELSE IF ~UnsignedLess(ci - e.m_cachestartindex, Len(e.m_cache))
       THEN [e EXCEPT !.m_cache =
                         @ \o Fill(((ci - e.m_cachestartindex) + 1) - Len(e.m_cache),
                                   cacheelement)]
       ELSE e

\* FindPath with moveblocked, lines 550-590: one position of the live loops; it is
\* taken when moveblocked(current, position) == false and the position is not closed,
\* and the entry of the current position is marked valid with each push_back
TileNeighborBlocked(e, pos, goal) ==
    IF moveblocked(e.node[e.currentnode].m_node, pos) = FALSE
    THEN LET w  == hl(e, TileIndex(e, pos))
             at == (TileIndex(e, pos) - w.m_helperliststartindex) + 1
             ci == (TileIndex(e, e.node[e.currentnode].m_node) - e.m_cachestartindex) + 1
         IN IF w.m_helperlist[at].m_onclosed = FALSE
            THEN [TileNeighbor(e, pos, goal, TRUE) EXCEPT !.m_cache[ci].m_hascache = TRUE]
            ELSE w
    ELSE e

RECURSIVE TileNeighborsBlocked(_, _, _, _)
\* FindPath with moveblocked, the loops at lines 546-593 over the 8 positions
TileNeighborsBlocked(e, nbrs, i, goal) ==
    IF i > Len(nbrs) THEN e
    ELSE TileNeighborsBlocked(TileNeighborBlocked(e, nbrs[i], goal), nbrs, i + 1, goal)

\* FindPath with moveblocked, lines 482-595: expand the position just popped
TileExpandBlocked(e, goal) ==
    IF TileCacheHit(e)
    THEN TileNeighbors(e, EntryPositions(e.m_cache[(TileIndex(e, e.node[e.currentnode].m_node)
                                                      - e.m_cachestartindex) + 1]),
                       1, goal, FALSE)
    ELSE TileNeighborsBlocked(TileGrowCache(e), Around(e.node[e.currentnode].m_node), 1, goal)

RECURSIVE TileFindPathLoopBlocked(_, _, _, _, _, _)
\* FindPath with moveblocked, the while loop at lines 470-607; the result is NULL when
\* the loop is still running after MaxPops pops
TileFindPathLoopBlocked(e, goal, fp, expanded, replayed, pops) ==
    IF pops = MaxPops
    THEN [e |-> e, result |-> NULL, finalpath |-> fp, expanded |-> expanded,
          replayed |-> replayed, goalg |-> NULL]
    ELSE IF Len(e.m_openlist) > 0
    THEN LET p == TilePopFront(e)
             st == p.node[p.currentnode].m_node
         IN IF st # goal
            THEN TileFindPathLoopBlocked(TileExpandBlocked(p, goal), goal, fp,
                                  IF TileCacheHit(p) THEN expanded ELSE Append(expanded, st),
                                  IF TileCacheHit(p) THEN Append(replayed, st) ELSE replayed,
                                  pops + 1)
            ELSE [e |-> [p EXCEPT !.currentnode = NULL, !.astaropen = NULL],
                  result |-> PATH_FOUND,
                  finalpath |-> Chain(p.node, p.currentnode), expanded |-> expanded,
                  replayed |-> replayed, goalg |-> p.node[p.currentnode].m_g]
    ELSE [e |-> [e EXCEPT !.currentnode = NULL, !.astaropen = NULL],
          result |-> PATH_NOTFOUND, finalpath |-> fp,
          expanded |-> expanded, replayed |-> replayed, goalg |-> NULL]

\* AStarTile8DirCached::FindPath(start, goal, finalpath, movecost, moveblocked,
\* destinationcost).  Lines 467-468, 475 and 479 subscript m_helperlist with the
\* position itself; they are read as the statements at lines 297-298, 305 and 309 of
\* the other overload, which subscript it with the position's index.
TileFindPathBlocked(e, start, goal, fp) ==
    TileFindPathLoopBlocked(TileSeedStart(e, start, goal), goal, fp, << >>, << >>, 0)

\* AStarTile8DirCached::ClearCache
TileClearCache(e) == [e EXCEPT !.m_cache = << >>, !.m_cachestartindex = 0]

\* AStarTile8DirCached::ClearCachePosition
TileClearCachePosition(e, pos) ==
    LET index == TileIndex(e, pos)
    IN IF index >= e.m_cachestartindex
            /\ UnsignedLess(index - e.m_cachestartindex, Len(e.m_cache))
       THEN [e EXCEPT !.m_cache[(index - e.m_cachestartindex) + 1] = cacheelement]
       ELSE e

\* SetMapWidth that sets the width and keeps the cache
SetMapWidthKeepsCache(e, width) ==
    IF width # e.m_mapwidth THEN [e EXCEPT !.m_mapwidth = width] ELSE e

\* AStarTile8DirCached::SetMapWidth
SetMapWidth(e, width) ==
    IF width # e.m_mapwidth THEN TileClearCache([e EXCEPT !.m_mapwidth = width]) ELSE e

(***************************************************************************)
(* The caller: one engine instance, driven through its public methods.     *)
(***************************************************************************)
\* op: the operation; start, goal: the arguments of the search in progress; result: the
\* value returned; expanded: the states handed to the live neighbor enumeration, in
\* order; replayed: the states expanded from their cache entry, in order; goalg: m_g of
\* the goal node on PATH_FOUND; begun: the operation that began the search in
\* progress; nstep: the Step calls since then, ends: those of them that returned
\* something other than PATH_SEARCHING (2 stands for two or more); index: the
\* argument of ClearCacheIndex; before: the cache entry of that index before the call;
\* again: a FindPath call with the arguments of the FindPath call made just before it;
\* pos: the argument of ClearCachePosition
NoCall == [op |-> "none", start |-> NULL, goal |-> NULL, result |-> NULL,
           expanded |-> << >>, replayed |-> << >>, goalg |-> NULL,
           begun |-> "none", nstep |-> 0, ends |-> 0,
           index |-> NULL, before |-> cacheelement, again |-> FALSE, pos |-> << >>,
           oldwidth |-> 0, valid |-> 0]

\* the caller repeats the FindPath call it made just before
Again(start, goal) == call.op = "FindPath" /\ call.start = start /\ call.goal = goal

\* what the caller fixes once: the engine class and its functors
env == <<variant, graph, hcost, indexbase, walls, terrain>>

\* the index bases the caller may use: indices 1..4, or -1..2
IndexBases == {0, 0 - 2}

\* the functors of a caller that does not use the engine they are for
NoGraph == [u \in States |-> << >>]
NoHeuristic == [u \in States |-> 0]
NoTerrain == [straight |-> 1, diagonal |-> 1, h |-> 0]

\* the tile caller's functors
Terrains == [straight : {1}, diagonal : {1, 2}, h : {0, 1}]

\* the positions the tile caller searches between, and the widths of its maps
TileCells == { <<2, 1>>, <<2, 2>>, <<1, 2>>, <<2, 3>> }
TileWidths == {3, 5}

\* the graphs and heuristics of the callers that search repeatedly
WarmGraphs == { g \in Graphs : Len(g[1]) = 2 /\ Len(g[3]) = 2 }
WarmHeuristics == { h \in Heuristics : h[1] = h[3] }

\* every start and goal
AllPairs == States \X States

\* the engines as constructed, nothing called yet
Constructed ==
    /\ gen = NewGeneric
    /\ cac = NewCached
    /\ til = NewTile
    /\ finalpath = << >>
    /\ call = NoCall
    /\ searches = 0
    /\ crashed = FALSE

\* a caller of AStarGeneric or AStarGenericCached with any graph and heuristic
Init ==
    /\ variant \in {"generic", "cached"}
    /\ graph \in Graphs
    /\ hcost \in Heuristics
    /\ indexbase \in (IF variant = "generic" THEN {0} ELSE IndexBases)
    /\ terrain = NoTerrain
    /\ walls = {}
    /\ Constructed

\* a caller of any of the three engines that searches repeatedly
InitWarm ==
    /\ variant \in {"generic", "cached", "tile"}
    /\ graph \in (IF variant = "tile" THEN {NoGraph} ELSE WarmGraphs)
    /\ hcost \in (IF variant = "tile" THEN {NoHeuristic} ELSE WarmHeuristics)
    /\ indexbase \in (IF variant = "cached" THEN IndexBases ELSE {0})
    /\ terrain \in (IF variant = "tile" THEN Terrains ELSE {NoTerrain})
    /\ walls = {}
    /\ Constructed

\* the caller runs FindPath(start, goal, finalpath, destinationcost, getneighbors)
GenericFindPathOn(limit, pairs) ==
    /\ variant = "generic"
    /\ ~crashed
    /\ searches < limit
    /\ \E pr \in pairs :
          \E r \in {FindPath(gen, pr[1], pr[2], finalpath)} :
             /\ gen' = r.e
             /\ finalpath' = r.finalpath
             /\ call' = [NoCall EXCEPT !.op = "FindPath", !.start = pr[1], !.goal = pr[2],
                                       !.result = r.result, !.expanded = r.expanded,
                                       !.goalg = r.goalg, !.begun = "FindPath",
                                       !.again = Again(pr[1], pr[2])]
    /\ searches' = searches + 1
    /\ UNCHANGED <<env, cac, til, crashed>>

\* the caller runs InitializeStep(start, goal, destinationcost, getneighbors)
GenericInitializeStepOn(limit, pairs) ==
    /\ variant = "generic"
    /\ ~crashed
    /\ searches < limit
    /\ \E pr \in pairs :
          /\ gen' = InitializeStep(gen, pr[1], pr[2])
          /\ call' = [NoCall EXCEPT !.op = "InitializeStep", !.start = pr[1],
                                    !.goal = pr[2], !.begun = "InitializeStep"]
    /\ searches' = searches + 1
    /\ UNCHANGED <<env, cac, til, finalpath, crashed>>

\* Step would call through m_getneighbors while it is still null
StepDerefsNull(e) ==
    /\ Len(e.m_openlist) > 0
    /\ e.node[e.m_openlist[1]].m_node # e.m_goal
    /\ e.m_getneighbors = NULL

\* what a Step call on engine e leaves in the call record
StepCall(e, live) ==
    [NoCall EXCEPT !.op = "Step", !.start = call.start, !.goal = call.goal,
                   !.begun = call.begun,
                   !.nstep = IF call.nstep = 0 THEN 1 ELSE 2,
                   !.ends = IF StepResult(e) = PATH_SEARCHING THEN call.ends
                            ELSE IF call.ends = 0 THEN 1 ELSE 2,
                   !.result = StepResult(e),
                   !.goalg = IF StepResult(e) = PATH_FOUND
                             THEN e.node[e.m_openlist[1]].m_g ELSE NULL,
                   !.expanded = IF StepResult(e) = PATH_SEARCHING /\ live
                                THEN << e.node[e.m_openlist[1]].m_node >> ELSE << >>,
                   !.replayed = IF StepResult(e) = PATH_SEARCHING /\ ~live
                                THEN << e.node[e.m_openlist[1]].m_node >> ELSE << >>]

\* the caller runs Step(); a call through the null m_getneighbors is undefined: it
\* either runs the functor all the same or ends the process
GenericStep ==
    /\ variant = "generic"
    /\ ~crashed
    /\ call.op # "none"
    /\ \/ /\ gen' = StepEngine(gen)
          /\ call' = StepCall(gen, TRUE)
          /\ crashed' = crashed
       \/ /\ StepDerefsNull(gen)
          /\ crashed' = TRUE
          /\ UNCHANGED <<gen, call>>
    /\ UNCHANGED <<env, cac, til, finalpath, searches>>

\* the caller runs GetPath(finalpath)
GenericGetPath ==
    /\ variant = "generic"
    /\ ~crashed
    /\ call.op \in {"InitializeStep", "Step"}
    /\ finalpath' = GetPath(gen)
    /\ call' = [call EXCEPT !.op = "GetPath"]
    /\ UNCHANGED <<env, gen, cac, til, searches, crashed>>

\* the caller runs FindPath(start, startindex, goal, finalpath, ...) of the cached engine
CachedFindPathOn(limit, pairs) ==
    /\ variant = "cached"
    /\ ~crashed
    /\ searches < limit
    /\ \E pr \in pairs :
          \E r \in {FindPathCached(cac, pr[1], IndexOf(pr[1]), pr[2], finalpath)} :
             /\ cac' = r.e
             /\ finalpath' = r.finalpath
             /\ call' = [NoCall EXCEPT !.op = "FindPath", !.start = pr[1], !.goal = pr[2],
                                       !.result = r.result, !.expanded = r.expanded,
                                       !.replayed = r.replayed,
                                       !.goalg = r.goalg, !.begun = "FindPath",
                                       !.again = Again(pr[1], pr[2])]
    /\ searches' = searches + 1
    /\ UNCHANGED <<env, gen, til, crashed>>

\* the caller runs InitializeStep(start, startindex, goal, ...) of the cached engine
CachedInitializeStepOn(limit, pairs) ==
    /\ variant = "cached"
    /\ ~crashed
    /\ searches < limit
    /\ \E pr \in pairs :
          /\ cac' = InitializeStepCached(cac, pr[1], IndexOf(pr[1]), pr[2])
          /\ call' = [NoCall EXCEPT !.op = "InitializeStep", !.start = pr[1],
                                    !.goal = pr[2], !.begun = "InitializeStep"]
    /\ searches' = searches + 1
    /\ UNCHANGED <<env, gen, til, finalpath, crashed>>

\* the caller runs Step() of the cached engine
CachedStep ==
    /\ variant = "cached"
    /\ ~crashed
    /\ call.op # "none"
    /\ \/ /\ cac' = StepEngineCached(cac)
          /\ call' = StepCall(cac, ~NextIsCacheHit(cac))
          /\ crashed' = crashed
       \/ /\ StepDerefsNull(cac)
          /\ ~NextIsCacheHit(cac)
          /\ crashed' = TRUE
          /\ UNCHANGED <<cac, call>>
    /\ UNCHANGED <<env, gen, til, finalpath, searches>>

\* the caller runs GetPath(finalpath) of the cached engine
CachedGetPath ==
    /\ variant = "cached"
    /\ ~crashed
    /\ call.op \in {"InitializeStep", "Step"}
    /\ finalpath' = GetPath(cac)
    /\ call' = [call EXCEPT !.op = "GetPath"]
    /\ UNCHANGED <<env, gen, cac, til, searches, crashed>>

\* the caller runs ClearCache() of the cached engine
CachedClearCache ==
    /\ variant = "cached"
    /\ ~crashed
    /\ cac' = ClearCache(cac)
    /\ call' = [call EXCEPT !.op = "ClearCache"]
    /\ UNCHANGED <<env, gen, til, finalpath, searches, crashed>>

\* the cache entry of index, a default one outside the window
CacheEntry(e, index) ==
    IF index >= e.m_cachestartindex /\ index - e.m_cachestartindex < Len(e.m_cache)
    THEN e.m_cache[(index - e.m_cachestartindex) + 1]
    ELSE cacheelement

\* the caller runs ClearCacheIndex(index) of the cached engine
CachedClearCacheIndex ==
    /\ variant = "cached"
    /\ ~crashed
    /\ \E u \in States :
          /\ cac' = ClearCacheIndex(cac, IndexOf(u))
          /\ call' = [call EXCEPT !.op = "ClearCacheIndex", !.index = IndexOf(u),
                                  !.before = CacheEntry(cac, IndexOf(u))]
    /\ UNCHANGED <<env, gen, til, finalpath, searches, crashed>>

\* the caller runs SetMapWidth(width) of the tile engine
TileCallSetMapWidth ==
    /\ variant = "tile"
    /\ ~crashed
    /\ \E width \in TileWidths :
          /\ til' = SetMapWidth(til, width)
          /\ call' = [call EXCEPT !.op = "SetMapWidth"]
    /\ UNCHANGED <<env, gen, cac, finalpath, searches, crashed>>

\* the caller runs FindPath(start, goal, finalpath, movecost, destinationcost) of the
\* tile engine; a call that does not return leaves the caller inside it for good
TileCallFindPathOn(limit) ==
    /\ variant = "tile"
    /\ ~crashed
    /\ searches < limit
    /\ \E start \in TileCells, goal \in TileCells :
          \E r \in {TileFindPath(til, start, goal, finalpath)} :
             /\ til' = IF r.result = NULL THEN til ELSE r.e
             /\ crashed' = (r.result = NULL)
             /\ finalpath' = r.finalpath
             /\ call' = [NoCall EXCEPT !.op = "FindPath", !.start = start, !.goal = goal,
                                       !.result = r.result, !.expanded = r.expanded,
                                       !.replayed = r.replayed,
                                       !.goalg = r.goalg, !.begun = "FindPath",
                                       !.again = Again(start, goal)]
    /\ searches' = searches + 1
    /\ UNCHANGED <<env, gen, cac>>

\* the caller runs ClearCache() of the tile engine
TileCallClearCache ==
    /\ variant = "tile"
    /\ ~crashed
    /\ til' = TileClearCache(til)
    /\ call' = [call EXCEPT !.op = "ClearCache"]
    /\ UNCHANGED <<env, gen, cac, finalpath, searches, crashed>>

GenericFindPath == GenericFindPathOn(MaxSearches, AllPairs)
GenericInitializeStep == GenericInitializeStepOn(MaxSearches, AllPairs)
CachedFindPath == CachedFindPathOn(MaxSearches, AllPairs)
CachedInitializeStep == CachedInitializeStepOn(MaxSearches, AllPairs)

Next ==
    \/ GenericFindPath \/ GenericInitializeStep \/ GenericStep \/ GenericGetPath
    \/ CachedFindPath \/ CachedInitializeStep \/ CachedStep \/ CachedGetPath

\* one search, by FindPath or by steps, on every graph and heuristic of the family
Spec == Init /\ [][Next]_vars

\* the graphs of the family in which 1 and 2, and 2 and 3, have moves both ways
LiveGraphs == { g \in Graphs : Len(g[2]) = 2 /\ Len(g[3]) = 2 }

InitLive ==
    /\ variant \in {"generic", "cached"}
    /\ graph \in LiveGraphs
    /\ hcost \in Heuristics
    /\ indexbase \in (IF variant = "generic" THEN {0} ELSE IndexBases)
    /\ terrain = NoTerrain
    /\ walls = {}
    /\ Constructed

\* a Step call of the caller would change the state: the engine, the call record or
\* the process
GenericStepActs ==
    /\ variant = "generic" /\ ~crashed /\ call.op # "none"
    /\ (StepEngine(gen) # gen \/ StepCall(gen, TRUE) # call \/ StepDerefsNull(gen))

\* the same of the cached engine
CachedStepActs ==
    /\ variant = "cached" /\ ~crashed /\ call.op # "none"
    /\ \/ StepEngineCached(cac) # cac
       \/ StepCall(cac, ~NextIsCacheHit(cac)) # call
       \/ (StepDerefsNull(cac) /\ ~NextIsCacheHit(cac))

\* one search on a graph with cycles by a caller that keeps calling Step: weak
\* fairness of the two Step actions, their enabling conditions written out
SpecLive ==
    /\ InitLive /\ [][Next]_vars
    /\ ([]<>(~GenericStepActs) \/ []<><<GenericStep>>_vars)
    /\ ([]<>(~CachedStepActs) \/ []<><<CachedStep>>_vars)

\* the caller runs a whole search by steps: InitializeStep, Step until it returns
\* something other than PATH_SEARCHING, then GetPath(finalpath)
GenericStepSearchOn(limit, pairs) ==
    /\ variant = "generic"
    /\ ~crashed
    /\ searches < limit
    /\ \E pr \in pairs :
          \E r \in {StepRun(InitializeStep(gen, pr[1], pr[2]), << >>)} :
             /\ gen' = r.e
             /\ finalpath' = GetPath(r.e)
             /\ call' = [NoCall EXCEPT !.op = "StepSearch", !.start = pr[1], !.goal = pr[2],
                                       !.result = r.result, !.expanded = r.expanded,
                                       !.goalg = r.goalg, !.begun = "InitializeStep"]
    /\ searches' = searches + 1
    /\ UNCHANGED <<env, cac, til, crashed>>

\* the same of the cached engine
CachedStepSearchOn(limit, pairs) ==
    /\ variant = "cached"
    /\ ~crashed
    /\ searches < limit
    /\ \E pr \in pairs :
          \E r \in {StepRunCached(InitializeStepCached(cac, pr[1], IndexOf(pr[1]), pr[2]),
                                  << >>, << >>)} :
             /\ cac' = r.e
             /\ finalpath' = GetPath(r.e)
             /\ call' = [NoCall EXCEPT !.op = "StepSearch", !.start = pr[1], !.goal = pr[2],
                                       !.result = r.result, !.expanded = r.expanded,
                                       !.replayed = r.replayed,
                                       !.goalg = r.goalg, !.begun = "InitializeStep"]
    /\ searches' = searches + 1
    /\ UNCHANGED <<env, gen, til, crashed>>

WarmGenericFindPath == GenericFindPathOn(MaxWarmSearches, AllPairs)
WarmGenericStepSearch == GenericStepSearchOn(MaxWarmSearches, AllPairs)
WarmCachedFindPath == CachedFindPathOn(MaxWarmSearches, AllPairs)
WarmCachedStepSearch == CachedStepSearchOn(MaxWarmSearches, AllPairs)
WarmTileFindPath == TileCallFindPathOn(MaxWarmSearches)

NextWarm ==
    \/ WarmGenericFindPath \/ WarmGenericStepSearch
    \/ WarmCachedFindPath \/ WarmCachedStepSearch \/ CachedClearCache
    \/ TileCallSetMapWidth \/ WarmTileFindPath \/ TileCallClearCache

\* whole searches one after the other on the same instance
SpecWarm == InitWarm /\ [][NextWarm]_vars

\* a caller of the cached engine that invalidates single cache entries
InvalidateGraphs == { g \in WarmGraphs : Len(g[2]) = 2 }
InvalidatePairs == { <<1, 4>>, <<2, 4>>, <<1, 3>> }

InitInvalidate ==
    /\ variant = "cached"
    /\ graph \in InvalidateGraphs
    /\ hcost = NoHeuristic
    /\ indexbase \in IndexBases
    /\ terrain = NoTerrain
    /\ walls = {}
    /\ Constructed

InvalidateFindPath == CachedFindPathOn(MaxInvalidateSearches, InvalidatePairs)

NextInvalidate == InvalidateFindPath \/ CachedClearCacheIndex

\* FindPath calls on the cached engine with ClearCacheIndex calls between them
SpecInvalidate == InitInvalidate /\ [][NextInvalidate]_vars

(***************************************************************************)
(* Callers of the cached engines that search, invalidate and change costs. *)
(***************************************************************************)
\* the searches the tile caller of this family makes, the positions it invalidates,
\* and the sets of positions its IMoveBlocked functor reports not reachable
TileCachePairs == { << <<2, 3>>, <<2, 1>> >>, << <<2, 2>>, <<1, 2>> >>,
                    << <<2, 1>>, <<2, 3>> >>, << <<2, 2>>, <<2, 2>> >> }
TileCachePositions == { <<2, 2>>, <<2, 3>>, <<7, 7>> }
TileWalls == { {}, { <<2, 2>>, <<2, 3>> } }

InitCache ==
    /\ variant \in {"cached", "tile"}
    /\ graph \in (IF variant = "tile" THEN {NoGraph} ELSE InvalidateGraphs)
    /\ hcost = NoHeuristic
    /\ indexbase \in (IF variant = "cached" THEN IndexBases ELSE {0})
    /\ terrain \in (IF variant = "tile" THEN Terrains ELSE {NoTerrain})
    /\ walls \in (IF variant = "tile" THEN TileWalls ELSE {{}})
    /\ gen = NewGeneric
    /\ cac = NewCached
    /\ til = NewTile
    /\ finalpath = << >>
    /\ call = NoCall
    /\ searches = 0
    /\ crashed = FALSE

\* the caller runs one of the two FindPath overloads of the tile engine: with the
\* IMoveBlocked functor (blocked) or without it
TileCallFindPathWith(limit, pairs, blocked) ==
    /\ variant = "tile"
    /\ ~crashed
    /\ searches < limit
    /\ \E pr \in pairs :
          \E r \in { IF blocked THEN TileFindPathBlocked(til, pr[1], pr[2], finalpath)
                     ELSE TileFindPath(til, pr[1], pr[2], finalpath) } :
             /\ til' = IF r.result = NULL THEN til ELSE r.e
             /\ crashed' = (r.result = NULL)
             /\ finalpath' = r.finalpath
             /\ call' = [NoCall EXCEPT !.op = IF blocked THEN "FindPathBlocked" ELSE "FindPath",
                                       !.start = pr[1], !.goal = pr[2],
                                       !.result = r.result, !.expanded = r.expanded,
                                       !.replayed = r.replayed,
                                       !.goalg = r.goalg, !.begun = "FindPath"]
    /\ searches' = searches + 1
    /\ UNCHANGED <<env, gen, cac>>

\* the caller runs ClearCachePosition(pos) of the tile engine
TileCallClearCachePosition ==
    /\ variant = "tile"
    /\ ~crashed
    /\ \E pos \in TileCachePositions :
          /\ til' = TileClearCachePosition(til, pos)
          /\ call' = [NoCall EXCEPT !.op = "ClearCachePosition", !.pos = pos]
    /\ UNCHANGED <<env, gen, cac, finalpath, searches, crashed>>

\* the caller runs SetMapWidth(width) of the tile engine; the record keeps the width
\* asked for, the width before the call and the number of valid entries before it
TileCallSetMapWidthTo ==
    /\ variant = "tile"
    /\ ~crashed
    /\ \E width \in TileWidths :
          /\ til' = SetMapWidth(til, width)
          /\ call' = [NoCall EXCEPT !.op = "SetMapWidth", !.index = width,
                                    !.oldwidth = til.m_mapwidth,
                                    !.valid = Cardinality({ k \in 1 .. Len(til.m_cache) :
                                                              til.m_cache[k].m_hascache })]
    /\ UNCHANGED <<env, gen, cac, finalpath, searches, crashed>>

\* the cost the caller's IMoveCost functor gives a diagonal move changes
TileChangeMoveCost ==
    /\ variant = "tile"
    /\ ~crashed
    /\ call.op = "FindPath"
    /\ terrain' = [terrain EXCEPT !.diagonal = 3 - @]
    /\ call' = [call EXCEPT !.op = "ChangeMoveCost"]
    /\ UNCHANGED <<variant, graph, hcost, indexbase, walls, gen, cac, til, finalpath,
                   searches, crashed>>

CacheCachedFindPath == CachedFindPathOn(MaxCacheSearches, InvalidatePairs)
CacheTileFindPath == TileCallFindPathWith(MaxCacheSearches, TileCachePairs, FALSE)
CacheTileFindPathBlocked == TileCallFindPathWith(MaxCacheSearches, TileCachePairs, TRUE)

NextCache ==
    \/ CacheCachedFindPath \/ CachedClearCache \/ CachedClearCacheIndex
    \/ CacheTileFindPath \/ CacheTileFindPathBlocked
    \/ TileCallSetMapWidthTo \/ TileCallClearCache \/ TileCallClearCachePosition
    \/ TileChangeMoveCost

\* searches of the two cached engines with whole and single invalidations, width
\* changes and move cost changes between them
SpecCache == InitCache /\ [][NextCache]_vars

(***************************************************************************)
(* A caller whose graphs make a search relax a node that is not the front  *)
(* of an open list of several nodes.                                       *)
(***************************************************************************)
\* state 1 has moves to 2, 3 and 4, and the way to 3 through 2 is the cheaper one
HeapGraphs ==
    { [u \in States |->
          CASE u = 1 -> << <<2, 0>>, <<3, a>>, <<4, b>> >>
            [] u = 2 -> << <<3, c>> >>
            [] u = 3 -> << <<4, d>>, <<2, 1>> >>
            [] OTHER -> << >>] :
      a \in {2, 3}, b \in {1, 3}, c \in {0, 1}, d \in {0, 1} }

InitHeap ==
    /\ variant \in {"generic", "cached"}
    /\ graph \in HeapGraphs
    /\ hcost \in Heuristics
    /\ indexbase \in (IF variant = "generic" THEN {0} ELSE IndexBases)
    /\ terrain = NoTerrain
    /\ walls = {}
    /\ Constructed

\* one search, by FindPath or by steps, on the graphs above
SpecHeap == InitHeap /\ [][Next]_vars

(***************************************************************************)
(* A caller that searches twice, by FindPath or step by step, and then     *)
(* destroys the engine.                                                    *)
(***************************************************************************)
MaxOwnSearches == 2

\* the graphs with every move of the family, and three starts and goals
OwnGraphs == { g \in LiveGraphs : Len(g[1]) = 2 }
OwnPairs == { <<1, 4>>, <<3, 1>>, <<2, 2>> }

InitOwn ==
    /\ variant \in {"generic", "cached", "tile"}
    /\ graph \in (IF variant = "tile" THEN {NoGraph} ELSE OwnGraphs)
    /\ hcost \in (IF variant = "tile" THEN {NoHeuristic} ELSE WarmHeuristics)
    /\ indexbase \in (IF variant = "cached" THEN IndexBases ELSE {0})
    /\ terrain = NoTerrain
    /\ walls = {}
    /\ Constructed

\* ~AStarGeneric, ~AStarGenericCached, ~AStarTile8DirCached: both lists are given back
\* to the allocator; ~astarallocator then deletes the nodes of its free list
Destructor(e) == ClearClosedList(ClearOpenList(e))

\* the engine object is still there
Alive == call.op # "destroy"

\* the caller destroys the engine
GenericDestroy ==
    /\ variant = "generic" /\ ~crashed /\ Alive
    /\ gen' = Destructor(gen)
    /\ call' = [NoCall EXCEPT !.op = "destroy"]
    /\ UNCHANGED <<env, cac, til, finalpath, searches, crashed>>

CachedDestroy ==
    /\ variant = "cached" /\ ~crashed /\ Alive
    /\ cac' = Destructor(cac)
    /\ call' = [NoCall EXCEPT !.op = "destroy"]
    /\ UNCHANGED <<env, gen, til, finalpath, searches, crashed>>

TileDestroy ==
    /\ variant = "tile" /\ ~crashed /\ Alive
    /\ til' = Destructor(til)
    /\ call' = [NoCall EXCEPT !.op = "destroy"]
    /\ UNCHANGED <<env, gen, cac, finalpath, searches, crashed>>

OwnGenericFindPath == Alive /\ GenericFindPathOn(MaxOwnSearches, OwnPairs)
OwnGenericInitializeStep == Alive /\ GenericInitializeStepOn(MaxOwnSearches, OwnPairs)
OwnGenericStep == Alive /\ GenericStep
OwnCachedFindPath == Alive /\ CachedFindPathOn(MaxOwnSearches, OwnPairs)
OwnCachedInitializeStep == Alive /\ CachedInitializeStepOn(MaxOwnSearches, OwnPairs)
OwnCachedStep == Alive /\ CachedStep
OwnTileFindPath == Alive /\ TileCallFindPathOn(MaxOwnSearches)
OwnTileSetMapWidth == Alive /\ TileCallSetMapWidth

NextOwn ==
    \/ OwnGenericFindPath \/ OwnGenericInitializeStep \/ OwnGenericStep \/ GenericDestroy
    \/ OwnCachedFindPath \/ OwnCachedInitializeStep \/ OwnCachedStep \/ CachedDestroy
    \/ OwnTileSetMapWidth \/ OwnTileFindPath \/ TileDestroy

\* two searches of any engine, whole or step by step, and the end of the engine
SpecOwn == InitOwn /\ [][NextOwn]_vars

(***************************************************************************)
(* A caller of hl alone: the visited index of the cached engines is read   *)
(* and written at indexes on both sides of 0, and cleared as at the start  *)
(* of a search.                                                            *)
(***************************************************************************)
MaxHlIndex == 2

\* the indexes hl is called with, and what the engines store in a slot
HlIndexes == (0 - MaxHlIndex) .. MaxHlIndex
HlValues == { [m_node |-> 1, m_onopen |-> TRUE, m_onclosed |-> FALSE],
              [m_node |-> 1, m_onopen |-> FALSE, m_onclosed |-> TRUE] }

InitHl ==
    /\ variant = "cached"
    /\ graph = NoGraph
    /\ hcost = NoHeuristic
    /\ indexbase = 0
    /\ terrain = NoTerrain
    /\ walls = {}
    /\ Constructed

\* hl(index) is called and the element it returns is only read
HlRead ==
    \E index \in HlIndexes :
       /\ cac' = hl(cac, index)
       /\ call' = [NoCall EXCEPT !.op = "hl", !.index = index]
       /\ UNCHANGED <<env, gen, til, finalpath, searches, crashed>>

\* hl(index) is called and the element it returns is written
HlWrite ==
    \E index \in HlIndexes, v \in HlValues :
       /\ cac' = [hl(cac, index) EXCEPT
                     !.m_helperlist[(index - hl(cac, index).m_helperliststartindex) + 1] = v]
       /\ call' = [NoCall EXCEPT !.op = "hlwrite", !.index = index]
       /\ UNCHANGED <<env, gen, til, finalpath, searches, crashed>>

\* m_helperlist.clear(); m_helperliststartindex=0; at the start of a search
HlClear ==
    /\ cac' = [cac EXCEPT !.m_helperlist = << >>, !.m_helperliststartindex = 0]
    /\ call' = [NoCall EXCEPT !.op = "hlclear"]
    /\ UNCHANGED <<env, gen, til, finalpath, searches, crashed>>

NextHl == HlRead \/ HlWrite \/ HlClear

\* every sequence of reads, writes and clears of the visited index
SpecHl == InitHl /\ [][NextHl]_vars

(***************************************************************************)
(* What the caller's graph and heuristic are: reachability, true costs.    *)
(***************************************************************************)
\* the states one move away from u
Successors(u) == { graph[u][i][1] : i \in 1 .. Len(graph[u]) }

\* the cost of the move from u to v, which the graph has
MoveCost(u, v) == graph[u][CHOOSE i \in 1 .. Len(graph[u]) : graph[u][i][1] = v][2]

RECURSIVE ReachIn(_, _)
\* the states reachable from the set S in at most k moves
ReachIn(S, k) ==
    IF k = 0 THEN S ELSE ReachIn(S \cup UNION { Successors(u) : u \in S }, k - 1)

\* the states reachable from u, u included
ReachableFrom(u) == ReachIn({u}, Cardinality(States))

\* some walk of one move or more leads from a state back to it
Cyclic == \E u \in States : u \in ReachIn(Successors(u), Cardinality(States))

RECURSIVE WalkCosts(_, _, _)
\* the costs of the walks of at most k moves from u to goal
WalkCosts(u, goal, k) ==
    (IF u = goal THEN {0} ELSE {}) \cup
    (IF k = 0 THEN {}
     ELSE UNION { { graph[u][i][2] + d : d \in WalkCosts(graph[u][i][1], goal, k - 1) } :
                  i \in 1 .. Len(graph[u]) })

Min(S) == CHOOSE x \in S : \A y \in S : x <= y

\* the true least cost from u to goal, for goal reachable from u
Dist(u, goal) == Min(WalkCosts(u, goal, Cardinality(States) - 1))

\* the heuristic never exceeds the true remaining cost to goal
Admissible(goal) ==
    \A u \in States : goal \in ReachableFrom(u) => destinationcost(u, goal) <= Dist(u, goal)

\* the heuristic is monotone: it drops by no more than the cost of a move
Consistent(goal) ==
    /\ destinationcost(goal, goal) = 0
    /\ \A u \in States : \A i \in 1 .. Len(graph[u]) :
          destinationcost(u, goal) <= graph[u][i][2] + destinationcost(graph[u][i][1], goal)

RECURSIVE PathCost(_, _)
\* the sum of the move costs along a path given in goal-to-start order, from index i on
PathCost(path, i) ==
    IF i >= Len(path) THEN 0 ELSE MoveCost(path[i + 1], path[i]) + PathCost(path, i + 1)

\* every element of the path is one move away from the element that follows it
IsChainOfMoves(path) ==
    \A i \in 1 .. Len(path) - 1 : path[i] \in Successors(path[i + 1])

(***************************************************************************)
(* Claims.                                                                 *)
(***************************************************************************)
\* the engine the caller instantiated
Engine == IF variant = "generic" THEN gen ELSE IF variant = "cached" THEN cac ELSE til

\* the elements of a sequence
SeqSet(q) == { q[i] : i \in 1 .. Len(q) }

\* the states of the nodes on the closed list
ClosedStates(e) == { e.node[e.m_closedlist[i]].m_node : i \in 1 .. Len(e.m_closedlist) }

\* state, g and f of every live node
NodeCosts(e) == { <<e.node[p].m_node, e.node[p].m_g, e.node[p].m_f>> : p \in DOMAIN e.node }

\* the triples the neighbor functor hands to AddNeighborCached for state u, in order
Emitted(u) ==
    [i \in 1 .. Len(graph[u]) |-> <<graph[u][i][1], IndexOf(graph[u][i][1]), graph[u][i][2]>>]

RECURSIVE TilePathCost(_, _)
\* the sum of the move costs along a path of positions in goal-to-start order
TilePathCost(path, i) ==
    IF i >= Len(path) THEN 0
    ELSE movecost(path[i + 1], path[i]) + TilePathCost(path, i + 1)

\* C1: FindPath of AStarGeneric returns PATH_FOUND exactly when the goal is
\* reachable from the start through the neighbor functor, and PATH_NOTFOUND
\* otherwise, for every graph and every heuristic drawn.
C1_FoundIffReachable ==
    call.op = "FindPath" =>
        /\ call.result \in {PATH_FOUND, PATH_NOTFOUND}
        /\ call.result = PATH_FOUND <=> call.goal \in ReachableFrom(call.start)

\* C1 witness: a search of AStarGeneric that went three moves deep in a graph with
\* a cycle.
C1_Witness ==
    /\ variant = "generic"
    /\ call.op = "FindPath"
    /\ call.start = 1 /\ call.goal = 4
    /\ call.result = PATH_FOUND
    /\ Len(finalpath) = 4
    /\ Cyclic

\* C2 as claimed: on an acyclic graph and with an admissible heuristic, the move
\* costs along the path FindPath returns sum to the true shortest-path cost.
C2_AdmissibleOptimal ==
    (call.op = "FindPath" /\ call.result = PATH_FOUND /\ ~Cyclic /\ Admissible(call.goal)) =>
        PathCost(finalpath, 1) = Dist(call.start, call.goal)

\* C2 amended: on an acyclic graph and with a consistent heuristic (zero at the
\* goal, dropping by no more than the move cost along every move), the move
\* costs along the path FindPath returns sum to the true shortest-path cost.
C2_ConsistentOptimal ==
    (call.op = "FindPath" /\ call.result = PATH_FOUND /\ ~Cyclic /\ Consistent(call.goal)) =>
        PathCost(finalpath, 1) = Dist(call.start, call.goal)

\* C2 witness: a three-move shortest path found under a consistent heuristic that
\* is not zero, in a graph where the direct move to state 3 is dearer.
C2_Witness ==
    /\ variant = "generic"
    /\ call.op = "FindPath" /\ call.result = PATH_FOUND
    /\ ~Cyclic /\ Consistent(call.goal)
    /\ destinationcost(call.start, call.goal) = 2
    /\ finalpath = <<4, 3, 2, 1>>
    /\ 3 \in Successors(1)
    /\ PathCost(finalpath, 1) = 2

\* C3: a search run by InitializeStep and Step calls up to the first result other
\* than PATH_SEARCHING ends with the result code FindPath returns for the same
\* start and goal on the same instance, and on PATH_FOUND GetPath yields the
\* sequence FindPath writes to finalpath (AStarGeneric and AStarGenericCached).
C3_StepMatchesFindPath ==
    [][ (call'.op = "StepSearch" /\ searches' = searches + 1) =>
           \E f \in { IF variant = "generic"
                      THEN FindPath(gen, call'.start, call'.goal, finalpath)
                      ELSE FindPathCached(cac, call'.start, IndexOf(call'.start),
                                          call'.goal, finalpath) } :
              /\ call'.result = f.result
              /\ f.result = PATH_FOUND => finalpath' = f.finalpath ]_vars

\* C3 witness: a search by steps of the cached engine that replayed a cache entry,
\* expanded another state live and found a path of two moves or more.
C3_Witness ==
    /\ variant = "cached"
    /\ call.op = "StepSearch" /\ call.result = PATH_FOUND
    /\ call.replayed # << >> /\ call.expanded # << >>
    /\ Len(finalpath) >= 3

\* C4: FindPath of AStarGenericCached returns, on whatever cache the earlier
\* searches left, the result code and the path it returns when ClearCache() is
\* called first.
C4_CacheTransparent ==
    [][ (variant = "cached" /\ call'.op = "FindPath" /\ searches' = searches + 1) =>
           \E cold \in { FindPathCached(ClearCache(cac), call'.start, IndexOf(call'.start),
                                        call'.goal, finalpath) } :
              /\ call'.result = cold.result
              /\ finalpath' = cold.finalpath ]_vars

\* C4 witness: a second search of the cached engine, from another start than the
\* first, that replayed a cache entry and found a path of two moves or more.
C4_Witness ==
    /\ variant = "cached"
    /\ call.op = "FindPath" /\ searches = 2 /\ ~call.again
    /\ call.result = PATH_FOUND
    /\ call.replayed # << >>
    /\ Len(finalpath) >= 3

\* every position of q lies strictly inside the columns of the map and below row 0,
\* so that the position and its eight neighbors have distinct non-negative indexes
InsideMap(e, q) ==
    \A i \in 1 .. Len(q) : q[i][1] \in 1 .. (e.m_mapwidth - 2) /\ q[i][2] >= 1

\* C5: FindPath of AStarTile8DirCached returns, on the cache an earlier search with
\* another start and goal left, the result code and the path cost it returns when
\* ClearCache() is called first (compared where both calls return and every state
\* either search expanded lies inside the map).
C5_TileCacheTransparent ==
    [][ (variant = "tile" /\ call.op = "FindPath" /\ call'.op = "FindPath"
            /\ searches' = searches + 1 /\ til'.m_mapwidth = til.m_mapwidth
            /\ InsideMap(til, call.expanded \o call.replayed)
            /\ InsideMap(til, call'.expanded \o call'.replayed)) =>
           \E cold \in { TileFindPath(TileClearCache(til), call'.start, call'.goal,
                                      finalpath) } :
              (call'.result # NULL /\ cold.result # NULL /\ InsideMap(til, cold.expanded)) =>
                 /\ call'.result = cold.result
                 /\ TilePathCost(finalpath', 1) = TilePathCost(cold.finalpath, 1) ]_vars

C7_Idempotent ==
    [][ (call'.op = "FindPath" /\ call'.again /\ searches' = searches + 1) =>
           /\ call'.result = call.result
           /\ finalpath' = finalpath
           /\ call'.goalg = call.goalg
           /\ NodeCosts(Engine') = NodeCosts(Engine) ]_vars

\* C7 witness: a repeated search of the tile engine that replayed cache entries
\* and found a path of two moves or more.
C7_Witness ==
    /\ variant = "tile"
    /\ call.op = "FindPath" /\ call.again
    /\ call.result = PATH_FOUND
    /\ call.replayed # << >>
    /\ Len(finalpath) >= 3

\* the line graph 1-2-3 with unit costs; state 4 has no moves
LineGraph == << << <<2, 1>> >>, << <<3, 1>>, <<1, 1>> >>, << <<2, 1>> >>, << >> >>

C10_UnreachableExhausts ==
    (call.op = "FindPath" /\ call.goal \notin ReachableFrom(call.start)) =>
        /\ call.result = PATH_NOTFOUND
        /\ Engine.m_openlist = << >>
        /\ ClosedStates(Engine) = ReachableFrom(call.start)
        /\ variant = "generic" =>
              \A u \in ReachableFrom(call.start) : gen.m_helperlist[u].m_onclosed

\* C10 witness: a failed search of AStarGeneric that closed three states or more.
C10_Witness ==
    /\ variant = "generic"
    /\ call.op = "FindPath" /\ call.result = PATH_NOTFOUND
    /\ Cardinality(ReachableFrom(call.start)) >= 3

\* the visited-index entry of state u: the map entry of AStarGeneric, the window slot of
\* AStarGenericCached, a default entry where there is none
Visited(e, u) ==
    IF variant = "generic"
    THEN IF u \in DOMAIN e.m_helperlist THEN e.m_helperlist[u] ELSE listelement
    ELSE IF IndexOf(u) >= e.m_helperliststartindex
              /\ IndexOf(u) - e.m_helperliststartindex < Len(e.m_helperlist)
         THEN HlAt(e, IndexOf(u))
         ELSE listelement

\* the positions of list at which a node of state u stands
NodesOf(e, list, u) == { i \in 1 .. Len(list) : e.node[list[i]].m_node = u }

\* C11: in every state a search reaches, each state of the graph is undiscovered (no
\* node, no flag), open (one node, in the open list, m_onopen set and m_onclosed not)
\* or closed (one node, in the closed list, m_onclosed set and m_onopen not); no state
\* has two nodes and no node is in both lists.
C11_OpenXorClosed ==
    variant \in {"generic", "cached"} =>
       \A u \in States :
          LET opn == NodesOf(Engine, Engine.m_openlist, u)
              cls == NodesOf(Engine, Engine.m_closedlist, u)
              v   == Visited(Engine, u)
          IN /\ Cardinality(opn) + Cardinality(cls) <= 1
             /\ opn # {} => (v.m_onopen /\ ~v.m_onclosed
                               /\ \A i \in opn : v.m_node = Engine.m_openlist[i])
             /\ cls # {} => (v.m_onclosed /\ ~v.m_onopen)
             /\ (opn = {} /\ cls = {}) =>
                   (~v.m_onopen /\ ~v.m_onclosed /\ v.m_node = NULL)

\* C11 witness: a search by steps of the cached engine with two states closed, one
\* open and one undiscovered.
C11_Witness ==
    /\ variant = "cached"
    /\ call.op = "Step"
    /\ Len(cac.m_closedlist) = 2
    /\ Len(cac.m_openlist) = 1
    /\ \E u \in States : NodesOf(cac, cac.m_openlist, u) = {}
                            /\ NodesOf(cac, cac.m_closedlist, u) = {}

\* C12: within a search a closed node stays where it is on the closed list, its
\* state, g, h, f and parent never change, and no node of its state enters the open
\* list, also when a later expansion reaches the state by a cheaper path.
C12_ClosedStaysClosed ==
    [][ (searches' = searches /\ variant \in {"generic", "cached"}) =>
           \A i \in 1 .. Len(Engine.m_closedlist) :
              /\ i <= Len(Engine'.m_closedlist)
              /\ Engine'.m_closedlist[i] = Engine.m_closedlist[i]
              /\ Engine'.node[Engine.m_closedlist[i]] = Engine.node[Engine.m_closedlist[i]]
              /\ NodesOf(Engine', Engine'.m_openlist,
                         Engine.node[Engine.m_closedlist[i]].m_node) = {} ]_vars

\* C12 witness: the state just expanded by a Step has a move to a state closed
\* before it that would give that state a smaller g than the one its node keeps.
C12_Witness ==
    /\ variant = "generic"
    /\ call.op = "Step" /\ call.expanded # << >>
    /\ \E i \in 1 .. Len(gen.m_closedlist), k \in 1 .. Len(graph[call.expanded[1]]) :
          /\ gen.m_closedlist[i] # gen.m_currentnode
          /\ gen.node[gen.m_closedlist[i]].m_node = graph[call.expanded[1]][k][1]
          /\ gen.node[gen.m_currentnode].m_g + graph[call.expanded[1]][k][2]
                < gen.node[gen.m_closedlist[i]].m_g

\* C13: once a Step of a search begun by InitializeStep has returned PATH_FOUND or
\* PATH_NOTFOUND, the next Step call of that search returns the same outcome and
\* leaves the current node, hence what GetPath yields, unchanged.
C13_TerminalOutcome ==
    [][ (variant \in {"generic", "cached"}
            /\ call.op = "Step" /\ call.begun = "InitializeStep"
            /\ call.result \in {PATH_FOUND, PATH_NOTFOUND}
            /\ call'.op = "Step" /\ searches' = searches /\ crashed' = crashed) =>
           /\ call'.result = call.result
           /\ Engine'.m_currentnode = Engine.m_currentnode
           /\ GetPath(Engine') = GetPath(Engine) ]_vars

\* C14: a Step call that returns, made on a non-empty open list, moves exactly the front node from the
\* open list to the end of the closed list, creates or changes only nodes of states
\* one move away from that node's state (none when it is the goal), and returns
\* PATH_FOUND when that state is the goal and PATH_SEARCHING otherwise; a Step call
\* on an empty open list changes nothing and returns PATH_NOTFOUND.
C14_OnePopPerStep ==
    [][ (variant \in {"generic", "cached"} /\ call'.op = "Step"
            /\ searches' = searches /\ crashed' = crashed) =>
           IF Len(Engine.m_openlist) > 0
           THEN /\ Engine'.m_closedlist = Append(Engine.m_closedlist, Engine.m_openlist[1])
                /\ Engine'.m_currentnode = Engine.m_openlist[1]
                /\ SeqSet(Engine.m_openlist) \ SeqSet(Engine'.m_openlist)
                      = { Engine.m_openlist[1] }
                /\ \A q \in DOMAIN Engine'.node :
                      (q \notin DOMAIN Engine.node \/ Engine'.node[q] # Engine.node[q]) =>
                         /\ Engine.node[Engine.m_openlist[1]].m_node # Engine.m_goal
                         /\ Engine'.node[q].m_node
                               \in Successors(Engine.node[Engine.m_openlist[1]].m_node)
                         /\ Engine'.node[q].m_parent = Engine.m_openlist[1]
                         /\ q \in SeqSet(Engine'.m_openlist)
                /\ call'.result = IF Engine.node[Engine.m_openlist[1]].m_node = Engine.m_goal
                                  THEN PATH_FOUND ELSE PATH_SEARCHING
           ELSE /\ Engine' = Engine
                /\ call'.result = PATH_NOTFOUND ]_vars

\* C14 witness: a Step of the cached engine has returned PATH_SEARCHING with two
\* nodes closed and two open.
C14_Witness ==
    /\ variant = "cached"
    /\ call.op = "Step" /\ call.result = PATH_SEARCHING
    /\ Len(cac.m_closedlist) = 2
    /\ Len(cac.m_openlist) = 2

TileListed(e) == SeqSet(e.m_openlist) \cup SeqSet(e.m_closedlist)

\* the (position, cost) pairs recorded in the cache entry of position pos
TileRecorded(e, pos) ==
    LET at == (TileIndex(e, pos) - e.m_cachestartindex) + 1
    IN IF at \in 1 .. Len(e.m_cache) THEN SeqSet(e.m_cache[at].m_neighbors) ELSE {}

\* C16: after a FindPath of AStarTile8DirCached, every node whose parent was expanded
\* by replaying its cache entry has the g of its parent plus the move cost recorded in
\* that entry for the node's position, whatever MoveCost returns at replay time.
C16_ReplayUsesRecordedCost ==
    [][ (variant = "tile" /\ call'.op \in {"FindPath", "FindPathBlocked"}
            /\ searches' = searches + 1 /\ call'.result # NULL) =>
           \A n \in TileListed(til') :
              LET nd == til'.node[n]
              IN (nd.m_parent # NULL
                    /\ til'.node[nd.m_parent].m_node \in SeqSet(call'.replayed)) =>
                    \E rec \in TileRecorded(til', til'.node[nd.m_parent].m_node) :
                       /\ rec[1] = nd.m_node
                       /\ nd.m_g = til'.node[nd.m_parent].m_g + rec[2] ]_vars

\* the (position, cost) pairs the live loops of the tile engine enumerate around pos:
\* the eight positions, or with the IMoveBlocked functor (blocked) those that pass
\* the test at line 554
TileYield(pos, blocked) ==
    { <<Around(pos)[i], movecost(pos, Around(pos)[i])>> :
         i \in { j \in 1 .. 8 : blocked => (moveblocked(pos, Around(pos)[j]) = FALSE) } }

\* C17: after a search of a cached engine, the cache entry of every state the search
\* expanded live lists every neighbor the live enumeration yields for it, with its
\* move cost, the neighbors that were closed at that moment included (for the tile
\* engine: where every state of the search lies inside the map).
C17_EntryListsEveryNeighbor ==
    [][ (searches' = searches + 1 /\ call'.result # NULL) =>
           /\ (variant = "cached") =>
                 \A i \in 1 .. Len(call'.expanded) :
                    SeqSet(CacheEntry(cac', IndexOf(call'.expanded[i])).m_neighbors)
                       = SeqSet(Emitted(call'.expanded[i]))
           /\ (variant = "tile" /\ InsideMap(til', call'.expanded \o call'.replayed)) =>
                 \A i \in 1 .. Len(call'.expanded) :
                    TileRecorded(til', call'.expanded[i])
                       = TileYield(call'.expanded[i], call'.op = "FindPathBlocked") ]_vars

\* engine f is engine e with the cache entry of index invalidated and nothing else
\* touched: the other entries, the window start, the lists, the visited index and the
\* nodes are those of e; an index outside the window leaves e as it is
OnlyEntryCleared(e, f, index) ==
    IF index >= e.m_cachestartindex /\ index - e.m_cachestartindex < Len(e.m_cache)
    THEN /\ \A fld \in DOMAIN e \ {"m_cache"} : f[fld] = e[fld]
         /\ Len(f.m_cache) = Len(e.m_cache)
         /\ \A k \in 1 .. Len(e.m_cache) :
               IF k = (index - e.m_cachestartindex) + 1
               THEN f.m_cache[k].m_hascache = FALSE
               ELSE f.m_cache[k] = e.m_cache[k]
    ELSE f = e

\* C18: ClearCacheIndex(i) of AStarGenericCached and ClearCachePosition(pos) of
\* AStarTile8DirCached invalidate the entry of that index only and leave every other
\* entry, the window start, the open and closed lists and the visited index as they
\* were; for an index outside the cache window they change nothing; ClearCache()
\* leaves no valid entry.
C18_InvalidateOnlyOne ==
    [][ /\ (variant = "cached" /\ call'.op = "ClearCacheIndex") =>
              OnlyEntryCleared(cac, cac', call'.index)
        /\ (variant = "tile" /\ call'.op = "ClearCachePosition") =>
              OnlyEntryCleared(til, til', TileIndex(til, call'.pos))
        /\ (call'.op = "ClearCache") =>
              /\ \A k \in 1 .. Len(cac'.m_cache) : ~cac'.m_cache[k].m_hascache
              /\ \A k \in 1 .. Len(til'.m_cache) : ~til'.m_cache[k].m_hascache
              /\ \A fld \in DOMAIN cac \ {"m_cache", "m_cachestartindex"} :
                    cac'[fld] = cac[fld]
              /\ \A fld \in DOMAIN til \ {"m_cache", "m_cachestartindex"} :
                    til'[fld] = til[fld] ]_vars

\* ClearCacheIndex has just invalidated a valid entry of a window in which another
\* entry is still valid
C18_Witness ==
    /\ variant = "cached"
    /\ call.op = "ClearCacheIndex"
    /\ call.before.m_hascache
    /\ ~CacheEntry(cac, call.index).m_hascache
    /\ \E k \in 1 .. Len(cac.m_cache) : cac.m_cache[k].m_hascache

\* C19: SetMapWidth(w) of AStarTile8DirCached with w other than the current width
\* sets the width and empties the whole cache; with w equal to the current width it
\* changes neither the width nor any cache entry; and no step of the engine changes
\* the width while keeping a valid cache entry.
C19_WidthChangeClearsCache ==
    [][ /\ (variant = "tile" /\ call'.op = "SetMapWidth") =>
              IF call'.index # til.m_mapwidth
              THEN /\ til'.m_mapwidth = call'.index
                   /\ til'.m_cache = << >>
              ELSE /\ til'.m_mapwidth = til.m_mapwidth
                   /\ til'.m_cache = til.m_cache
                   /\ til'.m_cachestartindex = til.m_cachestartindex
        /\ (til'.m_mapwidth # til.m_mapwidth) =>
              \A k \in 1 .. Len(til'.m_cache) : ~til'.m_cache[k].m_hascache ]_vars

\* SetMapWidth has just been called with another width on a cache that held valid
\* entries, and has emptied it
C19_Witness ==
    /\ variant = "tile"
    /\ call.op = "SetMapWidth"
    /\ call.index # call.oldwidth
    /\ call.valid > 0
    /\ til.m_mapwidth = call.index
    /\ til.m_cache = << >>

\* C20: with IMoveBlocked returning true when end is directly reachable from start,
\* after a FindPath of AStarTile8DirCached taking moveblocked every node opened from
\* a parent is directly reachable from that parent, and a position that no move
\* reaches directly is neither opened nor part of the path returned (the start
\* aside, which no move opens).
C20_MovesOnlyWhenReachable ==
    [][ (variant = "tile" /\ call'.op = "FindPathBlocked" /\ call'.result # NULL) =>
           /\ \A n \in TileListed(til') :
                 LET nd == til'.node[n]
                 IN nd.m_parent # NULL =>
                       /\ moveblocked(til'.node[nd.m_parent].m_node, nd.m_node) = TRUE
                       /\ nd.m_node \notin walls
           /\ \A i \in 1 .. Len(finalpath') :
                 (call'.result = PATH_FOUND /\ finalpath'[i] # call'.start) =>
                    finalpath'[i] \notin walls ]_vars

\* engine s holds exactly what an initialization leaves: an empty closed list, one
\* node, on the open list, which is the start without parent and with
\* g = destinationcost(start, goal), h = 0 and f = g, and a visited index that marks
\* the start open and nothing else
SeededGraph(s, start, goal) ==
    /\ s.m_closedlist = << >>
    /\ Len(s.m_openlist) = 1
    /\ DOMAIN s.node = { s.m_openlist[1] }
    /\ LET nd == s.node[s.m_openlist[1]]
       IN /\ nd.m_node = start /\ nd.m_parent = NULL
          /\ nd.m_g = destinationcost(start, goal) /\ nd.m_h = 0 /\ nd.m_f = nd.m_g
    /\ Visited(s, start) = [m_node |-> s.m_openlist[1], m_onopen |-> TRUE,
                            m_onclosed |-> FALSE]
    /\ \A u \in States \ {start} : Visited(s, u) = listelement

\* the same of the tile engine, whose visited index is a window of one slot
SeededTile(s, start, goal) ==
    /\ s.m_closedlist = << >>
    /\ Len(s.m_openlist) = 1
    /\ DOMAIN s.node = { s.m_openlist[1] }
    /\ LET nd == s.node[s.m_openlist[1]]
       IN /\ nd.m_node = start /\ nd.m_parent = NULL
          /\ nd.m_g = tiledestinationcost(start, goal) /\ nd.m_h = 0 /\ nd.m_f = nd.m_g
    /\ s.m_helperliststartindex = TileIndex(s, start)
    /\ s.m_helperlist = << [m_node |-> s.m_openlist[1], m_onopen |-> TRUE,
                            m_onclosed |-> FALSE] >>

C22_ReleasedNodesFirst ==
    [][ (searches' = searches + 1) =>
           LET al   == Engine.m_astarnodeallocator
               next == Engine'.m_astarnodeallocator
           IN /\ next.news > al.news => Len(next.m_mem) = 0
              /\ next.news = Len(next.m_mem) + Cardinality(DOMAIN Engine'.node)
              /\ \A i \in 1 .. Len(next.m_mem) : next.m_mem[i] \notin DOMAIN Engine'.node
              /\ Cardinality(DOMAIN Engine'.node) <= Cardinality(DOMAIN Engine.node) =>
                    next.news = al.news ]_vars

\* a second search has taken all its nodes, three or more, from the nodes the reset
\* of the first search released, and has left some of them on the free list
C22_Witness ==
    /\ searches = 2
    /\ Cardinality(DOMAIN Engine.node) >= 3
    /\ Len(Engine.m_astarnodeallocator.m_mem) > 0

\* the open list s is in heap order under astarnodecompare: no node has a smaller f
\* than the node above it
IsHeap(nd, s) == \A i \in 2 .. Len(s) : nd[s[i \div 2]].m_f <= nd[s[i]].m_f

\* the engine after the neighbor functor hands AddNeighbor the state u with move cost c
Relaxed(e, u, c) ==
    IF variant = "generic" THEN AddNeighbor(e, u, c)
    ELSE AddNeighborCached(e, u, IndexOf(u), c)

\* C23: in every state of a search, handing AddNeighbor a state that has an open node
\* sets that node's g to current.g + move cost, its f to g + h and its parent to the
\* current node, and leaves the open list a heap of the same nodes, exactly when
\* current.g + move cost is strictly smaller than the node's g; otherwise every node
\* and the open list stay as they are.
C23_RelaxOnlyIfCheaper ==
    (variant \in {"generic", "cached"} /\ Engine.m_currentnode # NULL) =>
       \A i \in 1 .. Len(Engine.m_openlist), c \in 0 .. MaxRelaxCost :
          LET o    == Engine.m_openlist[i]
              old  == Engine.node[o]
              cand == Engine.node[Engine.m_currentnode].m_g + c
              r    == Relaxed(Engine, old.m_node, c)
          IN IF cand < old.m_g
             THEN /\ r.node = [Engine.node EXCEPT ![o].m_g = cand,
                                                  ![o].m_f = cand + old.m_h,
                                                  ![o].m_parent = Engine.m_currentnode]
                  /\ IsHeap(r.node, r.m_openlist)
                  /\ Len(r.m_openlist) = Len(Engine.m_openlist)
                  /\ SeqSet(r.m_openlist) = SeqSet(Engine.m_openlist)
             ELSE /\ r.node = Engine.node
                  /\ r.m_openlist = Engine.m_openlist

\* the Step just made has relaxed a node that an earlier expansion had opened: the
\* node is open, its parent is the node just expanded, and a state closed before
\* has a move to its state
C23_Witness ==
    /\ variant \in {"generic", "cached"}
    /\ call.op = "Step" /\ call.result = PATH_SEARCHING
    /\ \E i \in 1 .. Len(Engine.m_openlist), k \in 1 .. Len(Engine.m_closedlist) :
          /\ Engine.node[Engine.m_openlist[i]].m_parent = Engine.m_currentnode
          /\ Engine.m_closedlist[k] # Engine.m_currentnode
          /\ Engine.node[Engine.m_openlist[i]].m_node
                \in Successors(Engine.node[Engine.m_closedlist[k]].m_node)

PopTakesLeastF(e) ==
    LET p == IF variant = "generic" THEN PopFront(e) ELSE PopFrontCached(e)
    IN /\ IsHeap(e.node, e.m_openlist)
       /\ SeqSet(p.m_openlist) = SeqSet(e.m_openlist) \ {p.m_currentnode}
       /\ Len(p.m_openlist) = Len(e.m_openlist) - 1
       /\ \A i \in 1 .. Len(p.m_openlist) :
             e.node[p.m_currentnode].m_f <= e.node[p.m_openlist[i]].m_f

RECURSIVE EveryPopTakesLeastF(_, _)
\* PopTakesLeastF at every pop of the loop of FindPath run from engine e
EveryPopTakesLeastF(e, goal) ==
    IF Len(e.m_openlist) = 0 THEN TRUE
    ELSE /\ PopTakesLeastF(e)
         /\ LET p == IF variant = "generic" THEN PopFront(e) ELSE PopFrontCached(e)
                st == p.node[p.m_currentnode].m_node
            IN st # goal =>
                  EveryPopTakesLeastF(IF variant = "generic" THEN getneighbors(p, st)
                                      ELSE ExpandCached(p), goal)

\* C25: every pop of the open list, in the loop of FindPath and in Step, finds the
\* open list in heap order and takes a node whose f is no larger than the f of any
\* node it leaves there, also when a relaxation has lowered the f of an open node
\* since the pop before.
C25_PopTakesLeastF ==
    [][ (variant \in {"generic", "cached"}) =>
           /\ (call'.op = "FindPath") =>
                 EveryPopTakesLeastF(
                    IF variant = "generic" THEN SeedStart(gen, call'.start, call'.goal)
                    ELSE SeedStartCached(cac, call'.start, IndexOf(call'.start),
                                         call'.goal),
                    call'.goal)
           /\ (call'.op = "Step" /\ searches' = searches /\ crashed' = crashed
                  /\ Len(Engine.m_openlist) > 0) =>
                 /\ PopTakesLeastF(Engine)
                 /\ Engine'.m_currentnode = Engine.m_openlist[1]
                 /\ IsHeap(Engine'.node, Engine'.m_openlist) ]_vars

\* the Step just made has relaxed a node of an open list of two nodes or more: the
\* node's parent is the node just expanded and a state closed before has a move to it
C25_Witness ==
    /\ variant \in {"generic", "cached"}
    /\ call.op = "Step" /\ call.result = PATH_SEARCHING
    /\ Len(Engine.m_openlist) >= 2
    /\ \E i \in 1 .. Len(Engine.m_openlist), k \in 1 .. Len(Engine.m_closedlist) :
          /\ Engine.node[Engine.m_openlist[i]].m_parent = Engine.m_currentnode
          /\ Engine.m_closedlist[k] # Engine.m_currentnode
          /\ Engine.node[Engine.m_openlist[i]].m_node
                \in Successors(Engine.node[Engine.m_closedlist[k]].m_node)

RECURSIVE AncestorAt(_, _, _)
\* the node k parent links above p, NULL when the links end before
AncestorAt(nd, p, k) ==
    IF k = 0 \/ p = NULL THEN p ELSE AncestorAt(nd, nd[p].m_parent, k - 1)

\* C26: in every state of a search the parent links form no cycle: the node of the
\* start state is the only node without a parent, the parent of every other node is
\* a node on the closed list, and the parent links from any node end at the start
\* node after fewer links than there are nodes.
C26_ParentLinksAcyclic ==
    (variant \in {"generic", "cached"} /\ call.op # "none") =>
       LET live == SeqSet(Engine.m_openlist) \cup SeqSet(Engine.m_closedlist)
       IN /\ live = DOMAIN Engine.node
          /\ \A p \in live :
                /\ (Engine.node[p].m_parent = NULL) <=> (Engine.node[p].m_node = call.start)
                /\ Engine.node[p].m_parent # NULL =>
                      Engine.node[p].m_parent \in SeqSet(Engine.m_closedlist)
                /\ AncestorAt(Engine.node, p, Cardinality(live)) = NULL
                /\ \E k \in 0 .. Cardinality(live) - 1 :
                      LET a == AncestorAt(Engine.node, p, k)
                      IN a # NULL /\ Engine.node[a].m_parent = NULL
                             /\ Engine.node[a].m_node = call.start

\* a search by steps on a graph with a cycle has a node two parent links away from
\* the start node, and the cycle leads from that node's state back to the start
C26_Witness ==
    /\ variant \in {"generic", "cached"}
    /\ call.op = "Step"
    /\ Cyclic
    /\ \E p \in DOMAIN Engine.node :
          /\ AncestorAt(Engine.node, p, 2) # NULL
          /\ Engine.node[AncestorAt(Engine.node, p, 2)].m_parent = NULL
          /\ call.start \in ReachableFrom(Engine.node[p].m_node)

PoppedOnce ==
    (variant \in {"generic", "cached"} /\ call.op # "none") =>
       /\ \A i, j \in 1 .. Len(Engine.m_closedlist) :
             Engine.node[Engine.m_closedlist[i]].m_node
                = Engine.node[Engine.m_closedlist[j]].m_node => i = j
       /\ ClosedStates(Engine) \subseteq ReachableFrom(call.start)
       /\ Len(Engine.m_closedlist) <= Cardinality(ReachableFrom(call.start))
       /\ Len(call.expanded \o call.replayed) <= Cardinality(ReachableFrom(call.start))
       /\ Cardinality(SeqSet(call.expanded \o call.replayed))
             = Len(call.expanded \o call.replayed)

\* C28: on every graph of the family, those with cycles and moves of cost 0 included,
\* no state is popped more than once in a search, so the pops never outnumber the
\* states reachable from the start; FindPath returns, and a search begun by
\* InitializeStep whose caller keeps calling Step gets PATH_FOUND or PATH_NOTFOUND
\* from one of the calls, unless the caller gives the search up for a new one.
C28_SearchTerminates ==
    /\ []PoppedOnce
    /\ \A n \in 1 .. MaxSearches :
          (call.op = "InitializeStep" /\ searches = n) ~>
             \/ searches > n
             \/ /\ call.begun = "InitializeStep"
                /\ call.result \in {PATH_FOUND, PATH_NOTFOUND}

\* a search by steps on a graph with a cycle has returned PATH_NOTFOUND after closing
\* every state reachable from the start, three or more
C28_Witness ==
    /\ variant \in {"generic", "cached"}
    /\ call.op = "Step" /\ call.result = PATH_NOTFOUND
    /\ Cyclic
    /\ call.start \in ReachIn(Successors(call.start), Cardinality(States))
    /\ Len(Engine.m_closedlist) >= 3
    /\ Len(Engine.m_closedlist) = Cardinality(ReachableFrom(call.start))

\* the indexes of the cache window of engine e
CacheWindow(e) == { e.m_cachestartindex + (k - 1) : k \in 1 .. Len(e.m_cache) }

\* C29: the initialization of a search of a cached engine leaves the cache and its
\* window as they are, and a call changes the cache entry of an index only when it is
\* a search that expands a state of that index live for the first time (the entry
\* was not valid), ClearCacheIndex or ClearCachePosition of that index, ClearCache,
\* or SetMapWidth with another width.
C29_CacheOutlivesSearches ==
    [][ /\ (variant = "cached" /\ searches' = searches + 1) =>
              /\ SeedStartCached(cac, call'.start, IndexOf(call'.start),
                                 call'.goal).m_cache = cac.m_cache
              /\ SeedStartCached(cac, call'.start, IndexOf(call'.start),
                                 call'.goal).m_cachestartindex = cac.m_cachestartindex
              /\ InitializeStepCached(cac, call'.start, IndexOf(call'.start),
                                      call'.goal).m_cache = cac.m_cache
              /\ InitializeStepCached(cac, call'.start, IndexOf(call'.start),
                                      call'.goal).m_cachestartindex = cac.m_cachestartindex
        /\ (variant = "tile" /\ searches' = searches + 1) =>
              /\ TileSeedStart(til, call'.start, call'.goal).m_cache = til.m_cache
              /\ TileSeedStart(til, call'.start, call'.goal).m_cachestartindex
                    = til.m_cachestartindex
        /\ (variant = "cached") =>
              \A k \in CacheWindow(cac) \cup CacheWindow(cac') :
                 CacheEntry(cac', k) # CacheEntry(cac, k) =>
                    \/ /\ searches' = searches + 1
                       /\ ~CacheEntry(cac, k).m_hascache
                       /\ \E i \in 1 .. Len(call'.expanded) : IndexOf(call'.expanded[i]) = k
                    \/ call'.op = "ClearCacheIndex" /\ call'.index = k
                    \/ call'.op = "ClearCache"
        /\ (variant = "tile") =>
              \A k \in CacheWindow(til) \cup CacheWindow(til') :
                 CacheEntry(til', k) # CacheEntry(til, k) =>
                    \/ /\ searches' = searches + 1
                       /\ ~CacheEntry(til, k).m_hascache
                       /\ \E i \in 1 .. Len(call'.expanded) :
                             TileIndex(til, call'.expanded[i]) = k
                    \/ call'.op = "ClearCachePosition" /\ TileIndex(til, call'.pos) = k
                    \/ call'.op = "ClearCache"
                    \/ call'.op = "SetMapWidth" /\ call'.index # til.m_mapwidth ]_vars

\* the states of the closed list of e in the order they were popped
PoppedStates(e) == [i \in 1 .. Len(e.m_closedlist) |-> e.node[e.m_closedlist[i]].m_node]

\* the state of every node of e with the state of its parent, NULL for none
ParentStates(e) ==
    { <<e.node[p].m_node,
        IF e.node[p].m_parent = NULL THEN NULL ELSE e.node[e.node[p].m_parent].m_node>> :
      p \in DOMAIN e.node }

\* C30: a search of AStarGenericCached on an empty cache, by FindPath or by steps,
\* pops the states AStarGeneric pops on the same start, goal, graph and heuristic, in
\* the same order, and ends with the same result code, path, node costs and parents;
\* it replays nothing.
C30_CachedRefinesGeneric ==
    [][ (variant = "cached" /\ searches' = searches + 1 /\ cac.m_cache = << >>) =>
           \E plain \in { IF call'.op = "FindPath"
                          THEN FindPath(gen, call'.start, call'.goal, finalpath)
                          ELSE StepRun(InitializeStep(gen, call'.start, call'.goal), << >>) } :
              /\ call'.result = plain.result
              /\ call'.expanded = plain.expanded
              /\ call'.replayed = << >>
              /\ call'.goalg = plain.goalg
              /\ finalpath' = IF call'.op = "FindPath" THEN plain.finalpath
                              ELSE GetPath(plain.e)
              /\ PoppedStates(cac') = PoppedStates(plain.e)
              /\ NodeCosts(cac') = NodeCosts(plain.e)
              /\ ParentStates(cac') = ParentStates(plain.e) ]_vars

\* the cached engine has run its first search, on an empty cache: it found a path of
\* three states or more under a heuristic that is not 0 everywhere
C30_Witness ==
    /\ variant = "cached"
    /\ searches = 1
    /\ call.op \in {"FindPath", "StepSearch"}
    /\ call.result = PATH_FOUND
    /\ Len(finalpath) >= 3
    /\ hcost[call.start] > 0
    /\ Len(cac.m_cache) >= 2

\* path is the chain of parents of the node popped last by engine e, down to start
IsChainOfPopped(e, path, start) ==
    /\ Len(path) >= 1
    /\ path[1] = e.node[e.m_closedlist[Len(e.m_closedlist)]].m_node
    /\ path[Len(path)] = start
    /\ \A i \in 1 .. Len(path) - 1 :
          \E p \in DOMAIN e.node :
             /\ e.node[p].m_node = path[i]
             /\ e.node[p].m_parent # NULL
             /\ e.node[e.node[p].m_parent].m_node = path[i + 1]
    /\ \A i, j \in 1 .. Len(path) : path[i] = path[j] => i = j

NoRepeat(q) == \A i, j \in 1 .. Len(q) : q[i] = q[j] => i = j

\* the node pointers the visited index of engine e holds
IndexedNodes(e) ==
    { e.m_helperlist[k].m_node : k \in DOMAIN e.m_helperlist } \ {NULL}

\* every node made by the allocator of engine e is once in the open list, the closed
\* list or the free list, and in one of them only
OwnedOnce(e) ==
    LET free == e.m_astarnodeallocator.m_mem
    IN /\ NoRepeat(e.m_openlist \o e.m_closedlist \o free)
       /\ SeqSet(e.m_openlist \o e.m_closedlist \o free) = 1 .. e.m_astarnodeallocator.news
       /\ DOMAIN e.node = SeqSet(e.m_openlist \o e.m_closedlist)

\* the reset of a search turns engine e into s: the nodes of the two lists went to
\* the free list once each, behind those already there, and the start node of the new
\* search is the one released last, a new one only if there was none
ReleasedOnce(e, s) ==
    LET freed == e.m_astarnodeallocator.m_mem \o e.m_openlist \o e.m_closedlist
    IN /\ s.m_closedlist = << >>
       /\ Len(s.m_openlist) = 1
       /\ s.m_astarnodeallocator.m_mem \o s.m_openlist
             = IF freed = << >> THEN << e.m_astarnodeallocator.news + 1 >> ELSE freed
       /\ s.m_astarnodeallocator.news
             = e.m_astarnodeallocator.news + (IF freed = << >> THEN 1 ELSE 0)
       /\ IndexedNodes(s) = SeqSet(s.m_openlist)

\* C32: every node the allocator has made is in exactly one of the open list, the
\* closed list and the free list, and once; while the engine lives, neither the
\* visited index nor the current-node pointer refers to a node of the free list; the
\* reset of FindPath and of InitializeStep frees every node of the two lists once,
\* and the destructor leaves every node once in the free list the allocator deletes.
C32_NodeOwnership ==
    [][ /\ OwnedOnce(Engine')
        /\ Alive' =>
              /\ IndexedNodes(Engine') \subseteq SeqSet(Engine'.m_openlist \o Engine'.m_closedlist)
              /\ (IF variant = "tile" THEN Engine'.currentnode ELSE Engine'.m_currentnode)
                    \in {NULL} \cup SeqSet(Engine'.m_closedlist)
        /\ searches' = searches + 1 =>
              ReleasedOnce(Engine,
                           IF variant = "generic"
                           THEN SeedStart(gen, call'.start, call'.goal)
                           ELSE IF variant = "cached"
                           THEN SeedStartCached(cac, call'.start, IndexOf(call'.start),
                                                call'.goal)
                           ELSE TileSeedStart(til, call'.start, call'.goal))
        /\ call'.op = "InitializeStep" => ReleasedOnce(Engine, Engine')
        /\ ~Alive' =>
              /\ Engine'.m_openlist = << >> /\ Engine'.m_closedlist = << >>
              /\ Engine'.m_astarnodeallocator.m_mem
                    = Engine.m_astarnodeallocator.m_mem \o Engine.m_openlist
                         \o Engine.m_closedlist ]_vars

\* a second search starts on an engine whose first search, by steps, left nodes on
\* both lists: its reset released three nodes or more
C32_Witness ==
    /\ searches = 2
    /\ call.op = "InitializeStep"
    /\ Len(Engine.m_astarnodeallocator.m_mem) >= 2
    /\ Engine.m_astarnodeallocator.news >= 3
    /\ Len(Engine.m_openlist) = 1

\* C33: a FindPath call that returns PATH_NOTFOUND leaves the caller's vector finalpath
\* as it was passed, so the path of an earlier search that found one is still in it.
C33_NotFoundKeepsPath ==
    [][ (call'.op = "FindPath" /\ searches' = searches + 1
            /\ call'.result = PATH_NOTFOUND) => finalpath' = finalpath ]_vars

\* the second FindPath of an engine returned PATH_NOTFOUND and the vector still holds
\* the path of the first, which ends somewhere else
C33_Witness ==
    /\ searches = 2
    /\ call.op = "FindPath"
    /\ call.result = PATH_NOTFOUND
    /\ Len(finalpath) >= 2
    /\ finalpath[1] # call.goal

\* the position of the node that the visited index of engine e holds in the slot of
\* position q, << >> when the slot is outside the window or holds no node
TileSlotPosition(e, q) ==
    LET at == (TileIndex(e, q) - e.m_helperliststartindex) + 1
    IN IF at \in DOMAIN e.m_helperlist /\ e.m_helperlist[at].m_node # NULL
       THEN e.node[e.m_helperlist[at].m_node].m_node
       ELSE << >>

\* C34: after a FindPath of AStarTile8DirCached, the slot of the visited index of a
\* neighbor of a position the search expanded holds the node of that neighbor or none,
\* never the node of another position, and the cache entry in the slot of an expanded
\* position lists neighbors of that position only.
C34_IndexIdentifiesPosition ==
    (variant = "tile" /\ call.op = "FindPath" /\ call.result # NULL) =>
       \A c \in SeqSet(call.expanded \o call.replayed) :
          /\ \A q \in SeqSet(Around(c)) : TileSlotPosition(til, q) \in {q, << >>}
          /\ LET ci == (TileIndex(til, c) - til.m_cachestartindex) + 1
             IN ci \in DOMAIN til.m_cache =>
                   SeqSet(EntryPositions(til.m_cache[ci])) \subseteq SeqSet(Around(c))

\* the index a state of the search of the running variant has: the caller's for the
\* cached engine, y * width + x for the tile engine
SearchIndex(u) == IF variant = "tile" THEN TileIndex(til, u) ELSE IndexOf(u)

\* C35: a search of a cached engine expands live no state whose index lies in the
\* cache window with a valid entry, wherever the window starts, and leaves every
\* valid entry as it was: no neighbor list is appended a second time.
C35_HitTestRecognisesWindow ==
    [][ (variant \in {"cached", "tile"} /\ call'.op \in {"FindPath", "StepSearch"}
            /\ searches' = searches + 1 /\ call'.result # NULL) =>
           /\ \A u \in SeqSet(call'.expanded) :
                 ~CacheEntry(Engine, SearchIndex(u)).m_hascache
           /\ \A i \in CacheWindow(Engine) :
                 CacheEntry(Engine, i).m_hascache =>
                    CacheEntry(Engine', i) = CacheEntry(Engine, i) ]_vars

\* a Step call on the running engine would call the neighbor functor: the open list
\* is not empty, its front is not the goal and, in the cached engine, has no valid
\* cache entry to replay
StepInvokesCallback ==
    /\ variant \in {"generic", "cached"}
    /\ ~crashed
    /\ call.op # "none"
    /\ Len(Engine.m_openlist) > 0
    /\ Engine.node[Engine.m_openlist[1]].m_node # Engine.m_goal
    /\ (variant = "cached" => ~NextIsCacheHit(cac))

\* C36: whenever a Step call would invoke the neighbor functor, m_getneighbors is set
\* and the search in progress is one that InitializeStep began, the only call that
\* stores the functor; so also for a Step call that follows FindPath.
C36_StepUsesOwnCallback ==
    StepInvokesCallback =>
       /\ Engine.m_getneighbors # NULL
       /\ call.begun = "InitializeStep"

\* the indexes the window of the visited index of engine e holds
HlWindow(e) == { e.m_helperliststartindex + (k - 1) : k \in 1 .. Len(e.m_helperlist) }

\* C37: a call hl(index) leaves the window holding index and every index it held; the
\* element of every other index of the old window is as it was, under the same
\* index, whether the window grew at the front or at the back; and every index the
\* call brought into the window, index itself when it was outside, reads as
\* undiscovered: no node, not open, not closed.
C37_WindowKeepsEntries ==
    [][ call'.op \in {"hl", "hlwrite"} =>
           /\ HlWindow(cac) \cup {call'.index} \subseteq HlWindow(cac')
           /\ \A j \in HlWindow(cac) \ {call'.index} : HlAt(cac', j) = HlAt(cac, j)
           /\ \A j \in HlWindow(cac') \ (HlWindow(cac) \cup {call'.index}) :
                 HlAt(cac', j) = listelement
           /\ call'.op = "hl" =>
                 HlAt(cac', call'.index) = IF call'.index \in HlWindow(cac)
                                           THEN HlAt(cac, call'.index) ELSE listelement ]_vars

\* the window has grown at the front, below index 0, around two written elements, and
\* the last call read an index that no call had written
C37_Witness ==
    /\ call.op = "hl"
    /\ cac.m_helperliststartindex < 0
    /\ Len(cac.m_helperlist) >= 4
    /\ \E i, j \in HlWindow(cac) :
          /\ i < 0 /\ j > 0
          /\ HlAt(cac, i).m_onopen
          /\ HlAt(cac, j).m_onclosed
    /\ HlAt(cac, call.index) = listelement

====
